---- MODULE Spec2Model ----
(***************************************************************************)
(* One realtime websocket connection of echokit_server                     *)
(* (src/services/realtime_ws.rs): the receiver loop of handle_socket, the  *)
(* handlers it dispatches to, the bounded event channel and the sender     *)
(* task that drains it to the socket.                                      *)
(*                                                                         *)
(* Strings are sequences of one-character strings, so that trim, join and  *)
(* push_str are computed.  Option<T> is a set with at most one element.    *)
(* Uuid::new_v4() is a counter: every minted id is fresh.  The event_id of *)
(* an event, minted per event and read by nothing, is left out.            *)
(***************************************************************************)
EXTENDS Integers, Sequences, FiniteSets, TLC

\* ---------------------------------------------------------------- bounds

\* Inbound websocket items one connection receives.
MaxFrames == 3
\* Text / Functions chunks one LLM stream yields before it stops or fails.
MaxChunks == 2
\* Capacity of the event channel.  The program's mpsc::channel(1024) is
\* scaled down, so that the sender task lags by a few events at most and a
\* full channel is met within the other bounds.
ChannelCapacity == 2

\* ------------------------------------------------------ program constants

\* send_wav: out_hz
out_hz == 16000
\* send_stream_chunk: in_hz
in_hz == 16000

\* const STANDARD_ERROR_RESPONSE (the text is kept as one token per word)
STANDARD_ERROR_RESPONSE == <<"s", "o", "r", "r", "y">>

\* ---------------------------------------------------------------- Option

None == {}
Some(x) == {x}
IsSome(o) == o # {}
Unwrap(o) == CHOOSE x \in o : TRUE
\* Option::unwrap_or
UnwrapOr(o, d) == IF o = {} THEN d ELSE CHOOSE x \in o : TRUE

\* --------------------------------------------------------------- strings

IsWhitespace(c) == c \in {" ", "\n", "\t"}

RECURSIVE TrimStart(_)
TrimStart(s) ==
    IF s # <<>> /\ IsWhitespace(Head(s)) THEN TrimStart(Tail(s)) ELSE s

RECURSIVE TrimEnd(_)
TrimEnd(s) ==
    IF s # <<>> /\ IsWhitespace(s[Len(s)])
    THEN TrimEnd(SubSeq(s, 1, Len(s) - 1))
    ELSE s

\* str::trim
Trim(s) == TrimEnd(TrimStart(s))

\* [String]::join(sep)
RECURSIVE Join(_, _)
Join(parts, sep) ==
    IF parts = <<>> THEN <<>>
    ELSE IF Len(parts) = 1 THEN parts[1]
    ELSE parts[1] \o sep \o Join(Tail(parts), sep)

\* ---------------------------------------------------------------- base64

\* encode_base64: the codec is an injective encoding; an encoded text is
\* tagged with what it decodes to, and any other text does not decode.
encode_base64(data) == [b64 |-> data]

InvalidBase64 == [bad |-> "%%%"]

\* decode_base64: Ok(bytes) or Err
decode_base64(text) ==
    IF "b64" \in DOMAIN text
    THEN [ok |-> TRUE, data |-> text.b64]
    ELSE [ok |-> FALSE, data |-> <<>>]

\* ------------------------------------------------------------ data types

Pcm16 == "pcm16"
G711Ulaw == "g711_ulaw"

\* TurnDetectionType
ServerVad == "server_vad"
NoTurnDetection == "none"

Text == "text"
Audio == "audio"

\* SessionConfig::default(): every field None
DefaultSessionConfig ==
    [modalities |-> None, instructions |-> None, input_audio_format |-> None,
     output_audio_format |-> None, turn_detection |-> None, temperature |-> None]

\* ContentPart
TextPart(text) == [kind |-> "text", text |-> text]
InputTextPart(text) == [kind |-> "input_text", text |-> text]
InputAudioPart(audio, transcript) ==
    [kind |-> "input_audio", audio |-> audio, transcript |-> transcript]
AudioPart(audio, transcript) ==
    [kind |-> "audio", audio |-> audio, transcript |-> transcript]

\* ConversationItem
Item(id, item_type, status, role, content, name, arguments, output) ==
    [id |-> id, item_type |-> item_type, status |-> status, role |-> role,
     content |-> content, name |-> name, arguments |-> arguments,
     output |-> output]

\* crate::ai::llm::Content
Content(role, message, tool_calls, tool_call_id) ==
    [role |-> role, message |-> message, tool_calls |-> tool_calls,
     tool_call_id |-> tool_call_id]

\* ChatSession::add_user_message / add_assistant_message: push to the back
add_user_message(msgs, text) ==
    Append(msgs, Content("user", text, None, None))

add_assistant_message(msgs, text) ==
    Append(msgs, Content("assistant", text, None, None))

\* ---------------------------------------------------------- server events

SessionCreated(session) == [type |-> "session.created", session |-> session]

ConversationCreated(id) == [type |-> "conversation.created", id |-> id]

ErrorEvent(code, param) ==
    [type |-> "error", error_type |-> "invalid_request_error",
     code |-> code, param |-> param]

SessionUpdated(session) == [type |-> "session.updated", session |-> session]

InputAudioBufferCleared == [type |-> "input_audio_buffer.cleared"]

InputAudioBufferCommitted(item_id) ==
    [type |-> "input_audio_buffer.committed", previous_item_id |-> None,
     item_id |-> item_id]

TranscriptionCompleted(item_id, transcript) ==
    [type |-> "conversation.item.input_audio_transcription.completed",
     item_id |-> item_id, content_index |-> 0, transcript |-> transcript]

ConversationItemCreated(previous_item_id, item) ==
    [type |-> "conversation.item.created",
     previous_item_id |-> previous_item_id, item |-> item]

ConversationInterrupted == [type |-> "conversation.interrupted"]

ResponseCreated(id) ==
    [type |-> "response.created", response_id |-> id,
     status |-> "in_progress"]

\* mutant: the block is a copy of the response.created block and announces
\* a response under the item's id
ResponseOutputItemAddedAsCreated(response_id, item) ==
    ResponseCreated(Unwrap(item.id))

ResponseOutputItemAdded(response_id, item) ==
    [type |-> "response.output_item.added", response_id |-> response_id,
     output_index |-> 0, item |-> item]

ResponseContentPartAdded(response_id, item_id, content_index, part) ==
    [type |-> "response.content_part.added", response_id |-> response_id,
     item_id |-> item_id, output_index |-> 0,
     content_index |-> content_index, part |-> part]

ResponseTextDelta(response_id, item_id, delta) ==
    [type |-> "response.text.delta", response_id |-> response_id,
     item_id |-> item_id, output_index |-> 0, content_index |-> 0,
     delta |-> delta]

ResponseAudioDelta(response_id, item_id, delta) ==
    [type |-> "response.audio.delta", response_id |-> response_id,
     item_id |-> item_id, output_index |-> 0, content_index |-> 1,
     delta |-> delta]

ResponseTextDone(response_id, item_id, text) ==
    [type |-> "response.text.done", response_id |-> response_id,
     item_id |-> item_id, output_index |-> 0, content_index |-> 0,
     text |-> text]

ResponseContentPartDone(response_id, item_id, content_index, part) ==
    [type |-> "response.content_part.done", response_id |-> response_id,
     item_id |-> item_id, output_index |-> 0,
     content_index |-> content_index, part |-> part]

ResponseAudioDone(response_id, item_id) ==
    [type |-> "response.audio.done", response_id |-> response_id,
     item_id |-> item_id, output_index |-> 0, content_index |-> 1]

ResponseOutputItemDone(response_id, item) ==
    [type |-> "response.output_item.done", response_id |-> response_id,
     output_index |-> 0, item |-> item]

ResponseDone(id) ==
    [type |-> "response.done", response_id |-> id, status |-> "completed"]

\* ----------------------------------------------------------------- state

VARIABLES
    env,                 \* StableRealtimeConfig of the server and the client's repertoire
    session_id,          \* session.id
    config,              \* session.config
    input_audio_buffer,  \* session.input_audio_buffer
    is_generating,       \* session.is_generating
    messages,            \* session.chat_session.messages
    system_prompts,      \* session.chat_session.system_prompts
    pc,                  \* where the receiver (handle_socket and its callees) stands
    todo,                \* events the receiver sends next, in program order
    loc,                 \* local variables of the running handler
    next_uuid,           \* the next value Uuid::new_v4() returns
    chan,                \* the events buffered in the mpsc channel
    send_task,           \* "unspawned", "running" or "finished"
    socket,              \* the frames written to the websocket, in order
    emitted,             \* history: every completed tx.send, with its outcome
    log,                 \* history: every inbound item with the state it met
    calls                \* history: the calls of external services and their results

session == <<session_id, config, input_audio_buffer, is_generating, messages,
             system_prompts>>

vars == <<env, session_id, config, input_audio_buffer, is_generating, messages,
          system_prompts, pc, todo, loc, next_uuid, chan, send_task, socket,
          emitted, log, calls>>

\* ---------------------------------------------------------------- inputs

TurnDetection(turn_type, create_response) ==
    [turn_type |-> turn_type, create_response |-> create_response]

\* session objects of session.update frames
AudioOn == [DefaultSessionConfig EXCEPT !.modalities = Some({Text, Audio})]
TextOnly == [DefaultSessionConfig EXCEPT !.modalities = Some({Text})]
Instructed == [DefaultSessionConfig EXCEPT !.instructions = Some("brief")]
NoAutoResponse ==
    [DefaultSessionConfig EXCEPT
        !.turn_detection = Some(TurnDetection(NoTurnDetection, Some(FALSE))),
        !.input_audio_format = Some(Pcm16)]
BadInputFormat ==
    [DefaultSessionConfig EXCEPT !.input_audio_format = Some(G711Ulaw),
                                 !.instructions = Some("brief")]
BadOutputFormat ==
    [DefaultSessionConfig EXCEPT !.output_audio_format = Some(G711Ulaw),
                                 !.modalities = Some({Text, Audio})]
WithServerVad ==
    [DefaultSessionConfig EXCEPT
        !.turn_detection = Some(TurnDetection(ServerVad, None)),
        !.temperature = Some(5)]
AllBad ==
    [DefaultSessionConfig EXCEPT
        !.input_audio_format = Some(G711Ulaw),
        !.output_audio_format = Some(G711Ulaw),
        !.turn_detection = Some(TurnDetection(ServerVad, None))]

\* items of conversation.item.create frames
UserItem ==
    Item(None, "message", None, Some("user"),
         Some(<<InputTextPart(<<"h", "i">>)>>), None, None, None)
AssistantItem ==
    Item(None, "message", None, Some("assistant"),
         Some(<<TextPart(<<"o", "k">>)>>), None, None, None)
FunctionCallItem ==
    Item(Some(901), "function_call", None, None, None, Some("f"),
         Some(<<"{", "}">>), None)
FunctionCallOutputItem ==
    Item(Some(901), "function_call_output", None, None, None, None, None,
         Some(<<"4">>))
SystemItem ==
    Item(None, "message", None, Some("system"),
         Some(<<InputTextPart(<<"n", "e", "w">>)>>), None, None, None)
\* a user message of three parts, one of them without text
SpokenUserItem ==
    Item(None, "message", None, Some("user"),
         Some(<<InputTextPart(<<"h", "i">>),
                InputAudioPart(encode_base64(<<1>>), None),
                InputAudioPart(encode_base64(<<2>>), Some(<<"y", "o">>))>>),
         None, None, None)
\* a message without content, a function call without arguments
BareUserItem ==
    Item(None, "message", None, Some("user"), None, None, None, None)
BareFunctionCallItem ==
    Item(Some(902), "function_call", None, None, None, Some("f"), None, None)

\* the Text frames a client sends, by ClientEvent variant
FSessionUpdate(c) == [type |-> "session.update", session |-> c]
FAppend(audio) == [type |-> "input_audio_buffer.append", audio |-> audio]
FCommit == [type |-> "input_audio_buffer.commit"]
FClear == [type |-> "input_audio_buffer.clear"]
FItemCreate(item) ==
    [type |-> "conversation.item.create", previous_item_id |-> None,
     item |-> item]
FItemCreateAfter(previous_item_id, item) ==
    [type |-> "conversation.item.create",
     previous_item_id |-> Some(previous_item_id), item |-> item]
FResponseCreate == [type |-> "response.create"]
FResponseCancel == [type |-> "response.cancel"]
\* a Text frame that does not parse, or a ClientEvent of the `_` arm
FIgnored(kind) == [type |-> "ignored", kind |-> kind]
\* a Binary / Ping / Pong message or an Err item
FSkipped == [type |-> "skipped"]

\* TTSConfig variants
TTSVariants == {"Stable", "Fish", "Groq", "StreamGSV"}

\* texts of LLM chunks
Hi == <<"h", "i">>
Parens == <<"(", ")">>
Blank == <<" ">>
Brackets == <<"[", "]", " ">>

\* WAV blobs returned by the Stable / Fish / Groq TTS
Wav(valid, samples, sample_rate) ==
    [valid |-> valid, samples |-> samples, sample_rate |-> sample_rate]

\* items of the HTTP body returned by the StreamGSV TTS
HttpChunk(len) == [ok |-> TRUE, len |-> len]
HttpError == [ok |-> FALSE, len |-> 0]

\* One explored class of runs: the server's configuration (vad_url, tts,
\* llm.sys_prompts), whether socket writes can fail, how many frames the client sends and which,
\* and what the external services answer when they succeed.
Environment(vad_url, tts, socket_fails, frames, sys_prompts, client, asr, llm, audio) ==
    [vad_url |-> vad_url, tts |-> tts, socket_fails |-> socket_fails,
     frames |-> frames, sys_prompts |-> sys_prompts, client |-> client,
     asr |-> asr, llm |-> llm, audio |-> audio]

Environments ==
    {\* a text dialogue: items, response.create, response.cancel
     Environment(None, "Stable", FALSE, MaxFrames, <<>>,
                 {FItemCreate(UserItem), FResponseCreate, FResponseCancel},
                 {}, {Hi}, {}),
     \* session.update, accepted and rejected; a system item without a
     \* system prompt to take it
     Environment(None, "Stable", FALSE, MaxFrames, <<>>,
                 {FSessionUpdate(AudioOn), FSessionUpdate(Instructed),
                  FSessionUpdate(BadInputFormat), FSessionUpdate(BadOutputFormat),
                  FSessionUpdate(WithServerVad), FSessionUpdate(AllBad),
                  FIgnored("malformed"), FSkipped, FItemCreate(SystemItem)},
                 {}, {}, {}),
     \* audio in, with VAD
     Environment(Some("vad"), "Stable", FALSE, MaxFrames, <<>>,
                 {FAppend(encode_base64(<<1>>)), FAppend(InvalidBase64),
                  FCommit, FClear, FSessionUpdate(NoAutoResponse)},
                 {<< <<"a">>, <<"b">> >>}, {Hi}, {}),
     \* audio in, without VAD; one frame more, for what a clear or a failed
     \* turn leaves to the next commit
     Environment(None, "Stable", FALSE, MaxFrames + 1, <<>>,
                 {FAppend(encode_base64(<<1>>)), FAppend(encode_base64(<<2, 3>>)),
                  FCommit, FClear, FResponseCancel},
                 {<< <<"h", "i">> >>, <<>>}, {Hi}, {}),
     \* spoken answers, WAV
     Environment(None, "Stable", FALSE, MaxFrames, <<>>,
                 {FSessionUpdate(AudioOn), FSessionUpdate(TextOnly),
                  FSessionUpdate(Instructed), FResponseCreate},
                 {}, {Hi},
                 {Wav(FALSE, 0, 16000), Wav(TRUE, 12000, 16000),
                  Wav(TRUE, 32000, 32000)}),
     \* spoken answers, streamed
     Environment(None, "StreamGSV", FALSE, MaxFrames, <<>>,
                 {FSessionUpdate(AudioOn), FResponseCreate},
                 {}, {Hi},
                 {<<HttpChunk(10000)>>,
                  <<HttpChunk(9000), HttpChunk(9000), HttpChunk(15000)>>,
                  <<HttpChunk(20000), HttpError>>}),
     \* the texts of a turn
     Environment(None, "Stable", FALSE, MaxFrames, <<>>,
                 {FResponseCreate, FItemCreate(AssistantItem),
                  FItemCreate(FunctionCallItem),
                  FItemCreate(FunctionCallOutputItem), FIgnored("unhandled")},
                 {}, {Hi, Parens, Blank, Brackets}, {}),
     \* a socket whose writes can fail
     Environment(None, "Stable", TRUE, MaxFrames, <<>>,
                 {FResponseCreate, FResponseCancel, FClear},
                 {}, {Hi}, {}),
     \* items of every shape, on a server with a system prompt
     Environment(None, "Stable", FALSE, MaxFrames,
                 <<Content("system", <<"o", "l", "d">>, None, None)>>,
                 {FItemCreate(SystemItem), FItemCreate(SpokenUserItem),
                  FItemCreate(BareUserItem), FItemCreateAfter(901, AssistantItem),
                  FItemCreate(FunctionCallItem), FItemCreate(BareFunctionCallItem),
                  FItemCreate(FunctionCallOutputItem)},
                 {}, {}, {}),
     \* spoken answers on a socket whose writes can fail
     Environment(None, "Stable", TRUE, MaxFrames, <<>>,
                 {FSessionUpdate(AudioOn), FResponseCreate},
                 {}, {Hi}, {Wav(TRUE, 12000, 16000)})}

\* ------------------------------------------------------------------ init

\* The Session announced by session.created
InitialSession(id) ==
    [id |-> id, model |-> "gpt-4o-realtime-preview",
     modalities |-> {Text, Audio},
     instructions |-> "You are a helpful assistant.", voice |-> "default",
     input_audio_format |-> Pcm16, output_audio_format |-> Pcm16,
     turn_detection |-> Some(TurnDetection(NoTurnDetection, None)),
     temperature |-> Some(8)]

NoLocals == [handler |-> "none"]

\* one call of an external service and how it ended
Call(service, result) == [service |-> service, result |-> result]

\* handle_socket up to the first socket write: the channel and the session
\* exist, nothing is sent yet.
Init ==
    /\ env \in Environments
    /\ session_id = 1
    /\ config = DefaultSessionConfig
    /\ input_audio_buffer = <<>>
    /\ is_generating = FALSE
    /\ messages = <<>>
    /\ system_prompts = env.sys_prompts
    /\ pc = "session_created"
    /\ todo = <<>>
    /\ loc = NoLocals
    /\ next_uuid = 2
    /\ chan = <<>>
    /\ send_task = "unspawned"
    /\ socket = <<>>
    /\ emitted = <<>>
    /\ log = <<>>
    /\ calls = <<>>

\* --------------------------------------------------- connection start-up

\* sender.send(session.created) succeeds
SendSessionCreated ==
    /\ pc = "session_created"
    /\ socket' = Append(socket, SessionCreated(InitialSession(session_id)))
    /\ pc' = "conversation_created"
    /\ UNCHANGED <<env, session, todo, loc, next_uuid, chan, send_task,
                   emitted, log, calls>>

\* sender.send(conversation.created) succeeds; the sender task is spawned
SendConversationCreated ==
    /\ pc = "conversation_created"
    /\ socket' = Append(socket, ConversationCreated(next_uuid))
    /\ next_uuid' = next_uuid + 1
    /\ send_task' = "running"
    /\ pc' = "recv"
    /\ UNCHANGED <<env, session, todo, loc, chan, emitted, log, calls>>

\* mutant: a failed initial write is ignored and handle_socket goes on
InitialWriteFailsGoesOn ==
    /\ pc \in {"session_created", "conversation_created"}
    /\ pc' = IF pc = "session_created" THEN "conversation_created" ELSE "recv"
    /\ send_task' = IF pc = "session_created" THEN send_task ELSE "running"
    /\ UNCHANGED <<env, session, todo, loc, next_uuid, chan, socket, emitted,
                   log, calls>>

\* one of the two initial writes fails: handle_socket returns
InitialWriteFails ==
    /\ pc \in {"session_created", "conversation_created"}
    /\ pc' = "returned"
    /\ UNCHANGED <<env, session, todo, loc, next_uuid, chan, send_task,
                   socket, emitted, log, calls>>

\* ------------------------------------------------- channel and sender task

\* The channel is closed once the sender task, which owns rx, has ended.
ChannelClosed == send_task = "finished"

\* history: a completed tx.send with its outcome, the iteration of the LLM
\* loop it was made in (0 outside the loop) and, for an audio delta, the TTS
\* answer it was cut from
Emitted(s, ok) ==
    [ev |-> s.ev, ok |-> ok,
     chunk |-> IF loc.handler = "generate_response" THEN loc.chunks ELSE 0,
     of |-> s.of]

\* mutant: the channel is unbounded
SendNeverBlocks ==
    /\ todo # <<>>
    /\ LET s == Head(todo) IN
         IF ChannelClosed
         THEN /\ emitted' = Append(emitted, Emitted(s, FALSE))
              /\ todo' = IF s.must THEN <<>> ELSE Tail(todo)
              /\ UNCHANGED chan
         ELSE /\ chan' = Append(chan, s.ev)
              /\ emitted' = Append(emitted, Emitted(s, TRUE))
              /\ todo' = Tail(todo)
    /\ UNCHANGED <<env, session, pc, loc, next_uuid, send_task, socket, log,
                   calls>>

\* tx.send(event).await: Err when the channel is closed, else the event is
\* queued as soon as the channel has room.  A send whose error is
\* propagated with `?` ("must") ends the rest of its caller.
Send ==
    /\ todo # <<>>
    /\ LET s == Head(todo) IN
         IF ChannelClosed
         THEN /\ emitted' = Append(emitted, Emitted(s, FALSE))
              /\ todo' = IF s.must THEN <<>> ELSE Tail(todo)
              /\ UNCHANGED chan
         ELSE /\ Len(chan) < ChannelCapacity
              /\ chan' = Append(chan, s.ev)
              /\ emitted' = Append(emitted, Emitted(s, TRUE))
              /\ todo' = Tail(todo)
    /\ UNCHANGED <<env, session, pc, loc, next_uuid, send_task, socket, log,
                   calls>>

\* mutant: the sender takes the newest event of the channel
SenderWritesNewest ==
    /\ send_task = "running"
    /\ chan # <<>>
    /\ socket' = Append(socket, chan[Len(chan)])
    /\ chan' = SubSeq(chan, 1, Len(chan) - 1)
    /\ UNCHANGED <<env, session, pc, todo, loc, next_uuid, send_task, emitted,
                   log, calls>>

\* send task: rx.recv() yields the oldest event and the socket write succeeds
SenderWrites ==
    /\ send_task = "running"
    /\ chan # <<>>
    /\ socket' = Append(socket, Head(chan))
    /\ chan' = Tail(chan)
    /\ UNCHANGED <<env, session, pc, todo, loc, next_uuid, send_task, emitted,
                   log, calls>>

\* send task: the socket write fails; the task breaks and rx is dropped
SenderWriteFails ==
    /\ send_task = "running"
    /\ chan # <<>>
    /\ env.socket_fails
    /\ send_task' = "finished"
    /\ chan' = <<>>
    /\ UNCHANGED <<env, session, pc, todo, loc, next_uuid, socket, emitted,
                   log, calls>>

\* mutant: the task ends when tx is dropped, whatever the channel holds
SenderEndsAtOnce ==
    /\ send_task = "running"
    /\ pc = "join"
    /\ send_task' = "finished"
    /\ chan' = <<>>
    /\ UNCHANGED <<env, session, pc, todo, loc, next_uuid, socket, emitted,
                   log, calls>>

\* send task: rx.recv() yields None, tx is dropped and the channel is empty
SenderEnds ==
    /\ send_task = "running"
    /\ chan = <<>>
    /\ pc = "join"
    /\ send_task' = "finished"
    /\ UNCHANGED <<env, session, pc, todo, loc, next_uuid, chan, socket,
                   emitted, log, calls>>

\* -------------------------------------------------------- receiver loop

\* receiver.next().await is pending: no handler runs
Idle == pc = "recv" /\ todo = <<>>

Snapshot ==
    [config |-> config, input_audio_buffer |-> input_audio_buffer,
     is_generating |-> is_generating, messages |-> messages,
     system_prompts |-> system_prompts, ncalls |-> Len(calls)]

\* An inbound item is taken from the socket.
Received(frame) ==
    /\ Idle
    /\ Len(log) < env.frames
    /\ log' = Append(log, [frame |-> frame, at |-> Len(emitted),
                           pre |-> Snapshot])

\* the frames of one ClientEvent variant the client of this run sends
ClientFrames(type) == {f \in env.client : f.type = type}

\* Close frame, or the inbound stream ends: break, drop(tx)
ReceiveClose ==
    /\ Idle
    /\ pc' = "join"
    /\ UNCHANGED <<env, session, todo, loc, next_uuid, chan, send_task,
                   socket, emitted, log, calls>>

\* a Binary / Ping / Pong message, or an Err item: skipped
ReceiveSkipped ==
    /\ \E f \in ClientFrames("skipped") : Received(f)
    /\ UNCHANGED <<env, session, pc, todo, loc, next_uuid, chan, send_task,
                   socket, emitted, calls>>

\* send_task.await returns
JoinSendTask ==
    /\ pc = "join"
    /\ send_task = "finished"
    /\ pc' = "returned"
    /\ UNCHANGED <<env, session, todo, loc, next_uuid, chan, send_task,
                   socket, emitted, log, calls>>

\* ------------------------------------------------- handle_client_message

S(ev) == [ev |-> ev, must |-> FALSE, of |-> None]

\* the send's error is propagated: .await.map_err(..)?
MustSend(ev) == [ev |-> ev, must |-> TRUE, of |-> None]

\* mutant: the output_audio_format check is missing
ValidateWithoutOutputFormat(c) ==
    IF IsSome(c.input_audio_format) /\ Unwrap(c.input_audio_format) # Pcm16
    THEN Some(ErrorEvent("unsupported_audio_format", Some("input_audio_format")))
    ELSE IF IsSome(c.turn_detection)
            /\ Unwrap(c.turn_detection).turn_type = ServerVad
    THEN Some(ErrorEvent("unsupported_turn_detection", Some("turn_detection.type")))
    ELSE None

\* session.update, the three checks in their order: the error event of the
\* first check that fails, or None when the update is accepted
ValidateSessionUpdate(c) ==
    IF IsSome(c.input_audio_format) /\ Unwrap(c.input_audio_format) # Pcm16
    THEN Some(ErrorEvent("unsupported_audio_format", Some("input_audio_format")))
    ELSE IF IsSome(c.output_audio_format)
            /\ Unwrap(c.output_audio_format) # Pcm16
    THEN Some(ErrorEvent("unsupported_audio_format", Some("output_audio_format")))
    ELSE IF IsSome(c.turn_detection)
            /\ Unwrap(c.turn_detection).turn_type = ServerVad
    THEN Some(ErrorEvent("unsupported_turn_detection", Some("turn_detection.type")))
    ELSE None

\* session.config = config
ApplySessionUpdate(old, c) == c

\* the Session reported by session.updated
EffectiveSession(id, c) ==
    [id |-> id, model |-> "llm.model",
     modalities |-> UnwrapOr(c.modalities, {Text, Audio}),
     instructions |-> UnwrapOr(c.instructions, "You are a helpful assistant."),
     voice |-> "tts.speaker",
     input_audio_format |-> UnwrapOr(c.input_audio_format, Pcm16),
     output_audio_format |-> UnwrapOr(c.output_audio_format, Pcm16),
     turn_detection |-> c.turn_detection,
     temperature |-> c.temperature]

\* ClientEvent::SessionUpdate
HandleSessionUpdate ==
    /\ \E f \in ClientFrames("session.update") :
         /\ Received(f)
         /\ LET c == f.session
                rejected == ValidateSessionUpdate(c)
            IN
              IF IsSome(rejected)
              THEN /\ todo' = <<S(Unwrap(rejected))>>
                   /\ UNCHANGED config
              ELSE /\ config' = ApplySessionUpdate(config, c)
                   /\ todo' = <<S(SessionUpdated(EffectiveSession(session_id, config')))>>
    /\ UNCHANGED <<env, session_id, input_audio_buffer, is_generating,
                   messages, system_prompts, pc, loc, next_uuid, chan,
                   send_task, socket, emitted, calls>>

\* ClientEvent::InputAudioBufferAppend
HandleInputAudioBufferAppend ==
    /\ \E f \in ClientFrames("input_audio_buffer.append") :
         /\ Received(f)
         /\ LET audio_data == decode_base64(f.audio) IN
              input_audio_buffer' =
                  IF audio_data.ok
                  THEN input_audio_buffer \o audio_data.data
                  ELSE input_audio_buffer
    /\ UNCHANGED <<env, session_id, config, is_generating, messages,
                   system_prompts, pc, todo, loc, next_uuid, chan, send_task,
                   socket, emitted, calls>>

\* mutant: the event is sent, session.input_audio_buffer.clear() is missing
HandleInputAudioBufferClearKeepsAudio ==
    /\ \E f \in ClientFrames("input_audio_buffer.clear") : Received(f)
    /\ todo' = <<S(InputAudioBufferCleared)>>
    /\ UNCHANGED <<env, session, pc, loc, next_uuid, chan, send_task, socket,
                   emitted, calls>>

\* ClientEvent::InputAudioBufferClear
HandleInputAudioBufferClear ==
    /\ \E f \in ClientFrames("input_audio_buffer.clear") : Received(f)
    /\ input_audio_buffer' = <<>>
    /\ todo' = <<S(InputAudioBufferCleared)>>
    /\ UNCHANGED <<env, session_id, config, is_generating, messages,
                   system_prompts, pc, loc, next_uuid, chan, send_task,
                   socket, emitted, calls>>

\* mutant: the event is sent, session.is_generating = false is missing
HandleResponseCancelKeepsGenerating ==
    /\ \E f \in ClientFrames("response.cancel") : Received(f)
    /\ todo' = <<S(ConversationInterrupted)>>
    /\ UNCHANGED <<env, session, pc, loc, next_uuid, chan, send_task, socket,
                   emitted, calls>>

\* ClientEvent::ResponseCancel
HandleResponseCancel ==
    /\ \E f \in ClientFrames("response.cancel") : Received(f)
    /\ is_generating' = FALSE
    /\ todo' = <<S(ConversationInterrupted)>>
    /\ UNCHANGED <<env, session_id, config, input_audio_buffer, messages,
                   system_prompts, pc, loc, next_uuid, chan, send_task,
                   socket, emitted, calls>>

\* a Text frame that is no ClientEvent (serde_json::from_str fails), or a
\* ClientEvent variant of the `_` arm: logged, nothing else
HandleIgnored ==
    /\ \E f \in ClientFrames("ignored") : Received(f)
    /\ UNCHANGED <<env, session, pc, todo, loc, next_uuid, chan, send_task,
                   socket, emitted, calls>>

\* extract_text_from_content: the texts and transcripts of the parts
RECURSIVE PartTexts(_)
PartTexts(content) ==
    IF content = <<>> THEN <<>>
    ELSE LET part == Head(content)
             rest == PartTexts(Tail(content))
         IN  IF part.kind \in {"text", "input_text"}
             THEN <<part.text>> \o rest
             ELSE IF IsSome(part.transcript)
             THEN <<Unwrap(part.transcript)>> \o rest
             ELSE rest

\* mutant: the texts are joined without the space
extract_text_unspaced(content) == Join(PartTexts(content), <<>>)

\* extract_text_from_content: .collect::<Vec<_>>().join(" ")
extract_text_from_content(content) == Join(PartTexts(content), <<" ">>)

\* mutant: the user arm does not match, the item falls to the `_` arm
ItemCreateMissesUser(msgs, item) ==
    IF item.item_type = "message" /\ item.role = Some("assistant")
       /\ IsSome(item.content)
    THEN add_assistant_message(msgs,
             extract_text_from_content(Unwrap(item.content)))
    ELSE msgs

\* the chat-history effect of conversation.item.create, by item shape
ItemCreateMessages(msgs, item) ==
    IF item.item_type = "message"
    THEN IF item.role = Some("user") /\ IsSome(item.content)
         THEN add_user_message(msgs, extract_text_from_content(Unwrap(item.content)))
         ELSE IF item.role = Some("assistant") /\ IsSome(item.content)
         THEN add_assistant_message(msgs,
                  extract_text_from_content(Unwrap(item.content)))
         ELSE msgs
    ELSE IF item.item_type = "function_call" /\ IsSome(item.arguments)
    THEN Append(msgs,
             Content("assistant", <<>>,
                     Some(<<[id |-> UnwrapOr(item.id, 0), type_ |-> "function",
                             name |-> UnwrapOr(item.name, ""),
                             arguments |-> Unwrap(item.arguments)]>>),
                     None))
    ELSE IF item.item_type = "function_call_output" /\ IsSome(item.output)
    THEN Append(msgs, Content("tool", Unwrap(item.output), None, item.id))
    ELSE msgs

\* role system: the first system prompt, if there is one, gets the text
ItemCreateSystemPrompts(prompts, item) ==
    IF /\ item.item_type = "message"
       /\ item.role = Some("system")
       /\ IsSome(item.content)
       /\ prompts # <<>>
    THEN [prompts EXCEPT
            ![1].message = extract_text_from_content(Unwrap(item.content))]
    ELSE prompts

\* ClientEvent::ConversationItemCreate
HandleConversationItemCreate ==
    /\ \E f \in ClientFrames("conversation.item.create") :
         /\ Received(f)
         /\ messages' = ItemCreateMessages(messages, f.item)
         /\ system_prompts' = ItemCreateSystemPrompts(system_prompts, f.item)
         /\ todo' = <<S(ConversationItemCreated(f.previous_item_id, f.item))>>
    /\ UNCHANGED <<env, session_id, config, input_audio_buffer, is_generating,
                   pc, loc, next_uuid, chan, send_task, socket, emitted,
                   calls>>

\* ClientEvent::ResponseCreate
HandleResponseCreate ==
    /\ \E f \in ClientFrames("response.create") : Received(f)
    /\ IF is_generating
       THEN /\ todo' = <<S(ErrorEvent("response_in_progress", None))>>
            /\ UNCHANGED pc
       ELSE /\ pc' = "generate_response"
            /\ UNCHANGED todo
    /\ UNCHANGED <<env, session, loc, next_uuid, chan, send_task, socket,
                   emitted, calls>>

\* -------------------------------------------- handle_audio_buffer_commit

\* mutant: the check for an empty buffer is missing
NeverEmpty(audio_data) == FALSE

\* audio_data.is_empty()
IsEmpty(audio_data) == audio_data = <<>>

\* ClientEvent::InputAudioBufferCommit: the buffer is swapped out, the item
\* id minted, and an empty buffer ends the handler with Ok(false)
HandleInputAudioBufferCommit ==
    /\ \E f \in ClientFrames("input_audio_buffer.commit") : Received(f)
    /\ LET audio_data == input_audio_buffer
           item_id == next_uuid
       IN  /\ input_audio_buffer' = <<>>
           /\ next_uuid' = next_uuid + 1
           /\ IF IsEmpty(audio_data)
              THEN UNCHANGED <<pc, todo, loc>>
              ELSE /\ todo' = <<S(InputAudioBufferCommitted(item_id))>>
                   /\ loc' = [handler |-> "commit", item_id |-> item_id,
                              audio_data |-> audio_data]
                   /\ pc' = IF IsSome(env.vad_url) THEN "vad_detect" ELSE "asr"
    /\ UNCHANGED <<env, session_id, config, is_generating, messages,
                   system_prompts, chan, send_task, socket, emitted, calls>>

\* vad_detect(..).await? returns Err: the handler ends with the error
VadFails ==
    /\ pc = "vad_detect" /\ todo = <<>>
    /\ calls' = Append(calls, Call("vad", "err"))
    /\ pc' = "recv"
    /\ loc' = NoLocals
    /\ UNCHANGED <<env, session, todo, next_uuid, chan, send_task, socket,
                   emitted, log>>

\* vad.timestamps is empty: an empty transcript is sent and the function
\* returns `create_response`
VadSilenceReturns(create_response) ==
    /\ pc = "vad_detect" /\ todo = <<>>
    /\ calls' = Append(calls, Call("vad", "silence"))
    /\ todo' = <<S(TranscriptionCompleted(loc.item_id, <<>>))>>
    /\ IF create_response
       THEN pc' = "generate_response" /\ UNCHANGED loc
       ELSE pc' = "recv" /\ loc' = NoLocals
    /\ UNCHANGED <<env, session, next_uuid, chan, send_task, socket, emitted,
                   log>>

\* mutant: the silent commit returns Ok(true)
VadSilenceCreatesResponse == VadSilenceReturns(TRUE)

\* vad.timestamps is empty: an empty transcript, Ok(false)
VadSilence == VadSilenceReturns(FALSE)

\* vad.timestamps is not empty: on to ASR
VadSpeech ==
    /\ pc = "vad_detect" /\ todo = <<>>
    /\ calls' = Append(calls, Call("vad", "speech"))
    /\ pc' = "asr"
    /\ UNCHANGED <<env, session, todo, loc, next_uuid, chan, send_task,
                   socket, emitted, log>>

\* mutant: the error of asr is swallowed (unwrap_or_default) and an empty
\* transcript is recorded
AsrFailsAddsEmptyMessage ==
    /\ pc = "asr" /\ todo = <<>>
    /\ calls' = Append(calls, Call("asr", "err"))
    /\ messages' = add_user_message(messages, <<>>)
    /\ pc' = "recv"
    /\ loc' = NoLocals
    /\ UNCHANGED <<env, session_id, config, input_audio_buffer, is_generating,
                   system_prompts, todo, next_uuid, chan, send_task, socket,
                   emitted, log>>

\* asr(..).await? returns Err: the handler ends with the error
AsrFails ==
    /\ pc = "asr" /\ todo = <<>>
    /\ calls' = Append(calls, Call("asr", "err"))
    /\ pc' = "recv"
    /\ loc' = NoLocals
    /\ UNCHANGED <<env, session, todo, next_uuid, chan, send_task, socket,
                   emitted, log>>

\* config.turn_detection.create_response, true when absent
should_generate_response(c) ==
    IF IsSome(c.turn_detection)
    THEN UnwrapOr(Unwrap(c.turn_detection).create_response, TRUE)
    ELSE TRUE

\* asr returns the segments: the user message is added to the history, then
\* conversation.item.created and the transcription event are sent
AsrTranscribes ==
    /\ pc = "asr" /\ todo = <<>>
    /\ calls' = Append(calls, Call("asr", "ok"))
    /\ \E text_results \in env.asr :
         LET transcript == Join(text_results, <<"\n">>)
             user_item ==
                 Item(Some(loc.item_id), "message", Some("completed"),
                      Some("user"),
                      Some(<<InputAudioPart(encode_base64(loc.audio_data),
                                            Some(transcript))>>),
                      None, None, None)
         IN  /\ messages' = add_user_message(messages, transcript)
             /\ todo' = <<S(ConversationItemCreated(None, user_item)),
                          S(TranscriptionCompleted(loc.item_id, transcript))>>
    /\ IF should_generate_response(config)
       THEN pc' = "generate_response" /\ UNCHANGED loc
       ELSE pc' = "recv" /\ loc' = NoLocals
    /\ UNCHANGED <<env, session_id, config, input_audio_buffer, is_generating,
                   system_prompts, next_uuid, chan, send_task, socket,
                   emitted, log>>

\* ------------------------------------------------------ generate_response

\* mutant: front() for back()
FirstIsAssistant(msgs) == msgs # <<>> /\ msgs[1].role = "assistant"

\* the last history message is from the assistant
LastIsAssistant(msgs) == msgs # <<>> /\ msgs[Len(msgs)].role = "assistant"

\* mutant: unwrap_or(true)
should_generate_audio_by_default(c) ==
    IF IsSome(c.modalities) THEN Audio \in Unwrap(c.modalities) ELSE TRUE

\* config.modalities contains Audio; false when modalities is None
should_generate_audio(c) ==
    IF IsSome(c.modalities) THEN Audio \in Unwrap(c.modalities) ELSE FALSE

\* mutant: the is_generating check is missing
GateIgnoresGenerating == LastIsAssistant(messages)

\* the two early returns of generate_response
GateCloses == LastIsAssistant(messages) \/ is_generating

\* generate_response returns at its gate
GenerateResponseSkips ==
    /\ pc = "generate_response" /\ todo = <<>>
    /\ GateCloses
    /\ pc' = "recv"
    /\ loc' = NoLocals
    /\ UNCHANGED <<env, session, todo, next_uuid, chan, send_task, socket,
                   emitted, log, calls>>

\* generate_response passes its gate: is_generating is set, the ids are
\* minted and the opening events are sent
GenerateResponseStarts ==
    /\ pc = "generate_response" /\ todo = <<>>
    /\ ~GateCloses
    /\ is_generating' = TRUE
    /\ LET response_id == next_uuid
           item_id == next_uuid + 1
           audio == should_generate_audio(config)
           assistant_item ==
               Item(Some(item_id), "message", Some("in_progress"),
                    Some("assistant"), Some(<<TextPart(<<>>)>>),
                    None, None, None)
       IN  /\ next_uuid' = next_uuid + 2
           /\ loc' = [handler |-> "generate_response",
                      response_id |-> response_id, item_id |-> item_id,
                      should_generate_audio |-> audio,
                      llm_response |-> <<>>, has_valid_response |-> FALSE,
                      chunks |-> 0, chunk |-> <<>>]
           /\ todo' =
                <<S(ResponseCreated(response_id)),
                  S(ResponseOutputItemAdded(response_id, assistant_item)),
                  S(ResponseContentPartAdded(response_id, item_id, 0,
                                             TextPart(<<>>)))>>
                \o (IF audio
                    THEN <<S(ResponseContentPartAdded(response_id, item_id, 1,
                                                      AudioPart(None, None)))>>
                    ELSE <<>>)
    /\ pc' = "complete"
    /\ UNCHANGED <<env, session_id, config, input_audio_buffer, messages,
                   system_prompts, chan, send_task, socket, emitted, log,
                   calls>>

\* session.chat_session.complete().await? returns Err: generate_response
\* ends with the error
LlmOpenFails ==
    /\ pc = "complete" /\ todo = <<>>
    /\ calls' = Append(calls, Call("llm", "err"))
    /\ pc' = "recv"
    /\ loc' = NoLocals
    /\ UNCHANGED <<env, session, todo, next_uuid, chan, send_task, socket,
                   emitted, log>>

\* complete() returns the stream
LlmOpens ==
    /\ pc = "complete" /\ todo = <<>>
    /\ calls' = Append(calls, Call("llm", "ok"))
    /\ pc' = "next_chunk"
    /\ UNCHANGED <<env, session, todo, loc, next_uuid, chan, send_task,
                   socket, emitted, log>>

\* a chunk counts as a valid response
IsValidChunk(chunk) ==
    /\ Trim(chunk) # <<>>
    /\ Trim(chunk) # <<"(", ")">>
    /\ Trim(chunk) # <<"[", "]">>

\* next_chunk yields Text(chunk)
LlmText ==
    /\ pc = "next_chunk" /\ todo = <<>>
    /\ loc.chunks < MaxChunks
    /\ \E chunk \in env.llm :
         /\ loc' = [loc EXCEPT
                      !.has_valid_response = @ \/ IsValidChunk(chunk),
                      !.llm_response = @ \o chunk,
                      !.chunks = @ + 1,
                      !.chunk = chunk]
         /\ todo' = <<S(ResponseTextDelta(loc.response_id, next_uuid, chunk))>>
    /\ next_uuid' = next_uuid + 1
    /\ pc' = IF loc.should_generate_audio THEN "tts_and_send" ELSE "next_chunk"
    /\ UNCHANGED <<env, session, chan, send_task, socket, emitted, log, calls>>

\* next_chunk yields Functions(_): continue
LlmFunctions ==
    /\ pc = "next_chunk" /\ todo = <<>>
    /\ loc.chunks < MaxChunks
    /\ loc' = [loc EXCEPT !.chunks = @ + 1]
    /\ UNCHANGED <<env, session, pc, todo, next_uuid, chan, send_task, socket,
                   emitted, log, calls>>

\* next_chunk yields Stop: break
LlmStop ==
    /\ pc = "next_chunk" /\ todo = <<>>
    /\ pc' = "after_loop"
    /\ UNCHANGED <<env, session, todo, loc, next_uuid, chan, send_task,
                   socket, emitted, log, calls>>

\* mutant: the error of next_chunk is propagated with `?`
LlmErrorAbortsTurn ==
    /\ pc = "next_chunk" /\ todo = <<>>
    /\ calls' = Append(calls, Call("llm", "chunk_err"))
    /\ pc' = "recv"
    /\ loc' = NoLocals
    /\ UNCHANGED <<env, session, todo, next_uuid, chan, send_task, socket,
                   emitted, log>>

\* mutant: the text received so far is kept when the stream fails
LlmErrorKeepsText ==
    /\ pc = "next_chunk" /\ todo = <<>>
    /\ calls' = Append(calls, Call("llm", "chunk_err"))
    /\ loc' = [loc EXCEPT !.has_valid_response = TRUE]
    /\ pc' = "after_loop"
    /\ UNCHANGED <<env, session, todo, next_uuid, chan, send_task, socket,
                   emitted, log>>

\* next_chunk yields Err: the standard reply replaces the text, break
LlmError ==
    /\ pc = "next_chunk" /\ todo = <<>>
    /\ calls' = Append(calls, Call("llm", "chunk_err"))
    /\ loc' = [loc EXCEPT !.llm_response = STANDARD_ERROR_RESPONSE,
                          !.has_valid_response = TRUE]
    /\ pc' = "after_loop"
    /\ UNCHANGED <<env, session, todo, next_uuid, chan, send_task, socket,
                   emitted, log>>

\* ------------------------------------------------------------ audio out

\* slice::chunks(size) of n elements: the lengths of the pieces
RECURSIVE Chunks(_, _)
Chunks(n, size) ==
    IF n = 0 THEN <<>>
    ELSE IF n <= size THEN <<n>>
    ELSE <<size>> \o Chunks(n - size, size)

\* wav_io::resample::linear: the number of samples at the new rate
resample_linear(samples, from_hz, to_hz) == (samples * to_hz) \div from_hz

\* mutant: a frame holds out_hz samples
send_wav_frames_of_one_second(wav) ==
    IF ~wav.valid THEN <<>>
    ELSE LET audio_16k ==
                 IF wav.sample_rate # out_hz
                 THEN resample_linear(wav.samples, wav.sample_rate, out_hz)
                 ELSE wav.samples
             frames == Chunks(audio_16k, out_hz)
         IN  [i \in 1..Len(frames) |-> frames[i] * 2]

\* send_wav: the decoded byte length of each audio delta (a frame holds
\* 5 * out_hz / 10 samples of two bytes); no frame when the WAV is unreadable
send_wav(wav) ==
    IF ~wav.valid THEN <<>>
    ELSE LET audio_16k ==
                 IF wav.sample_rate # out_hz
                 THEN resample_linear(wav.samples, wav.sample_rate, out_hz)
                 ELSE wav.samples
             frames == Chunks(audio_16k, (5 * out_hz) \div 10)
         IN  [i \in 1..Len(frames) |-> frames[i] * 2]

\* send_stream_chunk: 2 * 5 * in_hz / 10 bytes per frame
read_chunk_size == (2 * 5 * in_hz) \div 10

\* mutant: the residual is not sent when the stream ends
RECURSIVE send_stream_chunk_drops_rest(_, _)
send_stream_chunk_drops_rest(body, rest) ==
    IF body = <<>>
    THEN <<>>
    ELSE LET item == Head(body) IN
         IF ~item.ok THEN <<>>
         ELSE IF rest > 0 /\ item.len + rest <= read_chunk_size
         THEN send_stream_chunk_drops_rest(Tail(body), rest + item.len)
         ELSE LET n == IF rest > 0 THEN read_chunk_size - rest ELSE 0
                  first == IF rest > 0 THEN <<read_chunk_size>> ELSE <<>>
                  pieces == Chunks(item.len - n, read_chunk_size)
                  short == pieces # <<>>
                           /\ pieces[Len(pieces)] < read_chunk_size
                  full == IF short
                          THEN SubSeq(pieces, 1, Len(pieces) - 1)
                          ELSE pieces
              IN  first \o full
                  \o send_stream_chunk_drops_rest(Tail(body),
                          IF short THEN pieces[Len(pieces)] ELSE 0)

\* send_stream_chunk over the items of the HTTP body still to come, with
\* `rest` bytes buffered: the decoded byte length of each audio delta sent.
\* An Err item ends the function before the residual is sent.
RECURSIVE send_stream_chunk(_, _)
send_stream_chunk(body, rest) ==
    IF body = <<>>
    THEN IF rest > 0 THEN <<rest>> ELSE <<>>
    ELSE LET item == Head(body) IN
         IF ~item.ok THEN <<>>
         ELSE IF rest > 0 /\ item.len + rest <= read_chunk_size
         THEN send_stream_chunk(Tail(body), rest + item.len)
         ELSE LET n == IF rest > 0 THEN read_chunk_size - rest ELSE 0
                  first == IF rest > 0 THEN <<read_chunk_size>> ELSE <<>>
                  pieces == Chunks(item.len - n, read_chunk_size)
                  short == pieces # <<>>
                           /\ pieces[Len(pieces)] < read_chunk_size
                  full == IF short
                          THEN SubSeq(pieces, 1, Len(pieces) - 1)
                          ELSE pieces
              IN  first \o full
                  \o send_stream_chunk(Tail(body),
                                       IF short THEN pieces[Len(pieces)] ELSE 0)

\* the audio deltas of one TTS answer, each sent with `?`
AudioDeltas(lens, answer) ==
    [i \in 1..Len(lens) |->
        [MustSend(ResponseAudioDelta(loc.response_id, loc.item_id,
                                     encode_base64(lens[i])))
            EXCEPT !.of = Some(answer)]]

\* mutant: the error of tts_and_send is propagated with `?`
TtsFailsAbortsTurn ==
    /\ pc = "tts_and_send" /\ todo = <<>>
    /\ calls' = Append(calls, Call("tts", "err"))
    /\ pc' = "recv"
    /\ loc' = NoLocals
    /\ UNCHANGED <<env, session, todo, next_uuid, chan, send_task, socket,
                   emitted, log>>

\* tts_and_send: the TTS request itself fails
TtsFails ==
    /\ pc = "tts_and_send" /\ todo = <<>>
    /\ calls' = Append(calls, Call("tts", "err"))
    /\ pc' = "next_chunk"
    /\ UNCHANGED <<env, session, todo, loc, next_uuid, chan, send_task,
                   socket, emitted, log>>

\* tts_and_send, Stable / Fish / Groq: the WAV goes through send_wav
TtsWav ==
    /\ pc = "tts_and_send" /\ todo = <<>>
    /\ env.tts \in {"Stable", "Fish", "Groq"}
    /\ calls' = Append(calls, Call("tts", "ok"))
    /\ \E wav \in env.audio : todo' = AudioDeltas(send_wav(wav), wav)
    /\ pc' = "next_chunk"
    /\ UNCHANGED <<env, session, loc, next_uuid, chan, send_task, socket,
                   emitted, log>>

\* tts_and_send, StreamGSV: the body goes through send_stream_chunk
TtsStream ==
    /\ pc = "tts_and_send" /\ todo = <<>>
    /\ env.tts = "StreamGSV"
    /\ calls' = Append(calls, Call("tts", "ok"))
    /\ \E body \in env.audio : todo' = AudioDeltas(send_stream_chunk(body, 0), body)
    /\ pc' = "next_chunk"
    /\ UNCHANGED <<env, session, loc, next_uuid, chan, send_task, socket,
                   emitted, log>>

\* --------------------------------------------- generate_response, the end

\* mutant: only the emptiness of the text is checked
FinalResponseOfAnyText(llm_response, has_valid_response) ==
    IF Trim(llm_response) = <<>> THEN STANDARD_ERROR_RESPONSE ELSE llm_response

\* the text of the turn after the loop
FinalResponse(llm_response, has_valid_response) ==
    IF ~has_valid_response \/ Trim(llm_response) = <<>>
    THEN STANDARD_ERROR_RESPONSE
    ELSE llm_response

\* after the loop: the text is settled and the done events of the parts sent
AfterLoop ==
    /\ pc = "after_loop" /\ todo = <<>>
    /\ LET llm_response == FinalResponse(loc.llm_response, loc.has_valid_response)
           rid == loc.response_id
       IN  /\ loc' = [loc EXCEPT !.llm_response = llm_response]
           /\ todo' =
                <<S(ResponseTextDone(rid, next_uuid, llm_response)),
                  S(ResponseContentPartDone(rid, loc.item_id, 0,
                                            TextPart(llm_response)))>>
                \o (IF loc.should_generate_audio
                    THEN <<S(ResponseAudioDone(rid, loc.item_id)),
                           S(ResponseContentPartDone(rid, loc.item_id, 1,
                                 AudioPart(None, Some(llm_response))))>>
                    ELSE <<>>)
    /\ next_uuid' = next_uuid + 1
    /\ pc' = "update_history"
    /\ UNCHANGED <<env, session, chan, send_task, socket, emitted, log, calls>>

\* the assistant message is added, is_generating assigned, and
\* response.output_item.done and response.done are sent
UpdateHistoryAnd(generating) ==
    /\ pc = "update_history" /\ todo = <<>>
    /\ LET final_item ==
               Item(Some(loc.item_id), "message", Some("completed"),
                    Some("assistant"),
                    Some(<<TextPart(loc.llm_response)>>
                         \o (IF loc.should_generate_audio
                             THEN <<AudioPart(None, Some(loc.llm_response))>>
                             ELSE <<>>)),
                    None, None, None)
       IN  /\ messages' = add_assistant_message(messages, loc.llm_response)
           /\ is_generating' = generating
           /\ todo' = <<S(ResponseOutputItemDone(loc.response_id, final_item)),
                        S(ResponseDone(loc.response_id))>>
    /\ pc' = "recv"
    /\ loc' = NoLocals
    /\ UNCHANGED <<env, session_id, config, input_audio_buffer,
                   system_prompts, next_uuid, chan, send_task, socket,
                   emitted, log, calls>>

\* mutant: session.is_generating = false is missing
UpdateHistoryStillGenerating == UpdateHistoryAnd(is_generating)

\* the end of generate_response: session.is_generating = false
UpdateHistory == UpdateHistoryAnd(FALSE)

\* ------------------------------------------------------------------ spec

Next ==
    \/ SendSessionCreated
    \/ SendConversationCreated
    \/ InitialWriteFails
    \/ Send
    \/ SenderWrites
    \/ SenderWriteFails
    \/ SenderEnds
    \/ ReceiveClose
    \/ ReceiveSkipped
    \/ JoinSendTask
    \/ HandleSessionUpdate
    \/ HandleInputAudioBufferAppend
    \/ HandleInputAudioBufferCommit
    \/ HandleInputAudioBufferClear
    \/ HandleConversationItemCreate
    \/ HandleResponseCreate
    \/ HandleResponseCancel
    \/ HandleIgnored
    \/ VadFails
    \/ VadSilence
    \/ VadSpeech
    \/ AsrFails
    \/ AsrTranscribes
    \/ GenerateResponseSkips
    \/ GenerateResponseStarts
    \/ LlmOpenFails
    \/ LlmOpens
    \/ LlmText
    \/ LlmFunctions
    \/ LlmStop
    \/ LlmError
    \/ TtsFails
    \/ TtsWav
    \/ TtsStream
    \/ AfterLoop
    \/ UpdateHistory

Spec == Init /\ [][Next]_vars

\* The runtime schedules the spawned sender task whenever it can take an
\* event or see the channel closed, and resumes handle_socket when the task
\* it awaits has ended.
FairSpec ==
    /\ Spec
    /\ WF_vars(SenderWrites)
    /\ WF_vars(SenderEnds)
    /\ WF_vars(JoinSendTask)

\* ------------------------------------------------------------ properties
\* What the handler of the k-th inbound frame did is read off the history:
\* log[k] holds the frame, the session as the handler found it, and how many
\* sends and service calls had been made by then.

\* the handler of the k-th frame has returned
Returned(k) ==
    \/ k < Len(log)
    \/ k = Len(log) /\ todo = <<>> /\ pc \in {"recv", "join", "returned"}

\* the session as the handler of the k-th frame left it (or has it now)
PostOf(k) == IF k < Len(log) THEN log[k + 1].pre ELSE Snapshot

\* positions in `emitted` of the sends made by the handler of the k-th frame
OutRange(k) ==
    (log[k].at + 1) .. (IF k < Len(log) THEN log[k + 1].at ELSE Len(emitted))

\* the events the handler of the k-th frame has sent, in order
Out(k) ==
    LET first == log[k].at
        last  == IF k < Len(log) THEN log[k + 1].at ELSE Len(emitted)
    IN [i \in 1..(last - first) |-> emitted[first + i].ev]

\* the service calls the handler of the k-th frame has made, in order
CallsOf(k) == SubSeq(calls, log[k].pre.ncalls + 1, PostOf(k).ncalls)

Count(events, type) == Cardinality({i \in DOMAIN events : events[i].type = type})

IsCreated(i, r) ==
    emitted[i].ev.type = "response.created" /\ emitted[i].ev.response_id = r

IsDone(i, r) ==
    emitted[i].ev.type = "response.done" /\ emitted[i].ev.response_id = r

ResponseIds ==
    {emitted[i].ev.response_id :
        i \in {j \in DOMAIN emitted : emitted[j].ev.type = "response.created"}}

\* a response.created has been sent whose response.done has not
OpenResponse ==
    \E r \in ResponseIds : ~ \E j \in DOMAIN emitted : IsDone(j, r)

\* C1: every response.created(R) is followed, by the time the handler that
\* sent it returns, by exactly one response.done(R).  The code breaks this:
\* `complete().await?` returns from generate_response after response.created
\* with no response.done.
C1_CreatedHasOneDone ==
    \A k \in DOMAIN log :
        Returned(k) =>
            \A i \in OutRange(k) :
                emitted[i].ev.type = "response.created" =>
                    Cardinality({j \in DOMAIN emitted :
                        j > i /\ IsDone(j, emitted[i].ev.response_id)}) = 1

\* C2: whenever generate_response has returned, by whatever path,
\* is_generating is false.  The code breaks this on the `?` of complete().
C2_GeneratingIsReset ==
    (todo = <<>> /\ pc \in {"recv", "join", "returned"}) => ~ is_generating

\* C3 as stated: is_generating is true only while some response.created has
\* been sent whose response.done has not.
C3_GeneratingOnlyWithOpenResponse == is_generating => OpenResponse

\* the receiver is about to send the response.created of the turn it started
CreatedPending ==
    todo # <<>> /\ Head(todo).ev.type = "response.created"

\* C3: is_generating is true only while the response.created of the turn
\* just started is the next event to be sent, or a response.created has been
\* sent whose response.done has not.
C3_GeneratingWithinResponse ==
    is_generating => (CreatedPending \/ OpenResponse)

\* a turn is past its response.created and is_generating is set
C3_Witness ==
    is_generating /\ pc = "next_chunk" /\ OpenResponse /\ ~ CreatedPending

\* C4: between response.created(R) and response.done(R) no response.created
\* with another id is sent, whatever the client sends and in whatever order.
C4_NoOverlap ==
    \A r \in ResponseIds :
        \A i, k \in DOMAIN emitted :
            (i < k /\ IsCreated(i, r) /\ IsDone(k, r)) =>
                \A j \in (i + 1)..(k - 1) :
                    emitted[j].ev.type = "response.created" =>
                        emitted[j].ev.response_id = r

\* a session with two responses, the first of them closed
C4_Witness ==
    \E r1, r2 \in ResponseIds :
        /\ r1 # r2
        /\ \E i, k, j \in DOMAIN emitted :
               i < k /\ k < j /\ IsCreated(i, r1) /\ IsDone(k, r1)
               /\ IsCreated(j, r2)

\* frames k and k+1 are both response.create, the history ended with a user
\* message and nothing was generating when the first arrived, the first ran
\* to its response.done, and the second handler has returned
BackToBack(k) ==
    /\ k + 1 \in DOMAIN log
    /\ log[k].frame.type = "response.create"
    /\ log[k + 1].frame.type = "response.create"
    /\ ~ log[k].pre.is_generating
    /\ log[k].pre.messages # <<>>
    /\ log[k].pre.messages[Len(log[k].pre.messages)].role = "user"
    /\ Count(Out(k), "response.done") = 1
    /\ Returned(k + 1)

BadInputFormat_(c) ==
    IsSome(c.input_audio_format) /\ Unwrap(c.input_audio_format) # Pcm16

BadOutputFormat_(c) ==
    IsSome(c.output_audio_format) /\ Unwrap(c.output_audio_format) # Pcm16

BadTurnDetection_(c) ==
    IsSome(c.turn_detection) /\ Unwrap(c.turn_detection).turn_type = ServerVad

Rejected(k) ==
    /\ log[k].frame.type = "session.update"
    /\ Returned(k)
    /\ \/ BadInputFormat_(log[k].frame.session)
       \/ BadOutputFormat_(log[k].frame.session)
       \/ BadTurnDetection_(log[k].frame.session)

\* C6: a session.update with a non-pcm16 input or output format, or with
\* turn detection server_vad, is answered with exactly one error event that
\* names an offending field, with no session.updated, and leaves the session
\* as it was.
C6_RejectedUpdate ==
    \A k \in DOMAIN log :
        Rejected(k) =>
            LET c == log[k].frame.session
                o == Out(k)
            IN /\ Len(o) = 1
               /\ o[1].type = "error"
               /\ \/ /\ BadInputFormat_(c)
                     /\ o[1].code = "unsupported_audio_format"
                     /\ o[1].param = Some("input_audio_format")
                  \/ /\ BadOutputFormat_(c)
                     /\ o[1].code = "unsupported_audio_format"
                     /\ o[1].param = Some("output_audio_format")
                  \/ /\ BadTurnDetection_(c)
                     /\ o[1].code = "unsupported_turn_detection"
                     /\ o[1].param = Some("turn_detection.type")
               /\ PostOf(k) = log[k].pre

\* an update whose only fault is its output format has been rejected, after
\* an update that was accepted
C6_Witness ==
    \E k \in DOMAIN log :
        /\ Rejected(k)
        /\ ~ BadInputFormat_(log[k].frame.session)
        /\ ~ BadTurnDetection_(log[k].frame.session)
        /\ \E j \in 1..(k - 1) :
               /\ log[j].frame.type = "session.update"
               /\ ValidateSessionUpdate(log[j].frame.session) = None

ConfigFields ==
    {"modalities", "instructions", "input_audio_format",
     "output_audio_format", "turn_detection", "temperature"}

\* the accepted updates so far that supplied field f
Supplied(f) ==
    {k \in DOMAIN log :
        /\ log[k].frame.type = "session.update"
        /\ ValidateSessionUpdate(log[k].frame.session) = None
        /\ IsSome(log[k].frame.session[f])}

Max(set) == CHOOSE m \in set : \A n \in set : n <= m

\* C7: after an accepted session.update every field it supplied has its
\* value, and every field it left out keeps the value it had.  The code
\* breaks this: `session.config = config` resets the fields left out.
C7_FieldsMerge ==
    \A f \in ConfigFields :
        Supplied(f) # {} =>
            config[f] = log[Max(Supplied(f))].frame.session[f]

EmptyCommit(k) ==
    /\ log[k].frame.type = "input_audio_buffer.commit"
    /\ log[k].pre.input_audio_buffer = <<>>

\* C8: a commit on an empty buffer sends nothing, calls no service, and
\* leaves the history and the rest of the session as they were; its handler
\* has returned as soon as it has run.
C8_EmptyCommitIsNoOp ==
    \A k \in DOMAIN log :
        EmptyCommit(k) =>
            /\ Returned(k)
            /\ Out(k) = <<>>
            /\ CallsOf(k) = <<>>
            /\ PostOf(k) = log[k].pre

\* an empty commit after the buffer had held audio, with more frames after
C8_Witness ==
    \E k \in DOMAIN log :
        /\ EmptyCommit(k)
        /\ k > 1
        /\ log[k - 1].pre.input_audio_buffer # <<>>

\* C9: a commit on a non-empty buffer sends input_audio_buffer.committed(I)
\* once and then the transcription completed(I) once.  The code breaks
\* this: the `?` on vad_detect and on asr returns after committed.
C9_CommittedThenCompleted ==
    \A k \in DOMAIN log :
        ( /\ log[k].frame.type = "input_audio_buffer.commit"
          /\ log[k].pre.input_audio_buffer # <<>>
          /\ Returned(k) ) =>
            LET o == Out(k) IN
            /\ Count(o, "input_audio_buffer.committed") = 1
            /\ Count(o, "conversation.item.input_audio_transcription.completed") = 1
            /\ \E i, j \in DOMAIN o :
                   /\ i < j
                   /\ o[i].type = "input_audio_buffer.committed"
                   /\ o[j].type = "conversation.item.input_audio_transcription.completed"
                   /\ o[i].item_id = o[j].item_id

\* the handler of frame k committed audio, the VAD found no speech in it
SilentCommit(k) ==
    /\ log[k].frame.type = "input_audio_buffer.commit"
    /\ log[k].pre.input_audio_buffer # <<>>
    /\ IsSome(env.vad_url)
    /\ Returned(k)
    /\ CallsOf(k) # <<>>
    /\ CallsOf(k)[1] = Call("vad", "silence")

\* C10: when a VAD is configured and finds no speech in the committed audio,
\* the commit sends committed(I) and completed(I) with an empty transcript,
\* nothing else, calls neither ASR nor LLM, and adds nothing to the history.
C10_SilenceIsNotTranscribed ==
    \A k \in DOMAIN log :
        SilentCommit(k) =>
            LET o == Out(k) IN
            /\ Len(o) = 2
            /\ o[1].type = "input_audio_buffer.committed"
            /\ o[2] = TranscriptionCompleted(o[1].item_id, <<>>)
            /\ Len(CallsOf(k)) = 1
            /\ PostOf(k).messages = log[k].pre.messages
            /\ PostOf(k).is_generating = log[k].pre.is_generating

C10_Witness == \E k \in DOMAIN log : SilentCommit(k)

\* the last clear or commit before frame k, 0 when there is none
LastReset(k) ==
    LET resets == {j \in 1..(k - 1) :
                     log[j].frame.type \in {"input_audio_buffer.clear",
                                            "input_audio_buffer.commit"}}
    IN  IF resets = {} THEN 0 ELSE Max(resets)

\* the bytes of the append frames i..(k - 1) that decoded, in order
RECURSIVE AppendedFrom(_, _)
AppendedFrom(i, k) ==
    IF i >= k THEN <<>>
    ELSE LET f == log[i].frame
             bytes == IF f.type = "input_audio_buffer.append"
                         /\ decode_base64(f.audio).ok
                      THEN decode_base64(f.audio).data
                      ELSE <<>>
         IN  bytes \o AppendedFrom(i + 1, k)

\* C11: a clear empties the buffer and sends exactly one
\* input_audio_buffer.cleared; what a commit takes is exactly the bytes
\* appended since the last clear or commit, in append order; the buffer is
\* empty after every commit.
C11_ClearAndCommitEmptyTheBuffer ==
    /\ \A k \in DOMAIN log :
           /\ (log[k].frame.type = "input_audio_buffer.clear" /\ Returned(k)) =>
                  /\ Out(k) = <<InputAudioBufferCleared>>
                  /\ PostOf(k).input_audio_buffer = <<>>
           /\ log[k].frame.type = "input_audio_buffer.commit" =>
                  /\ log[k].pre.input_audio_buffer
                         = AppendedFrom(LastReset(k) + 1, k)
                  /\ PostOf(k).input_audio_buffer = <<>>
    /\ loc.handler = "commit" =>
           loc.audio_data = log[Len(log)].pre.input_audio_buffer

\* a commit has taken audio appended after a clear that discarded audio
C11_Witness ==
    \E k \in DOMAIN log :
        /\ log[k].frame.type = "input_audio_buffer.commit"
        /\ log[k].pre.input_audio_buffer # <<>>
        /\ LastReset(k) > 1
        /\ log[LastReset(k)].frame.type = "input_audio_buffer.clear"
        /\ log[LastReset(k)].pre.input_audio_buffer # <<>>

\* the messages of one role, in order
OfRole(msgs, role) == SelectSeq(msgs, LAMBDA m : m.role = role)

\* conversation.item.created for a user message that has content
IsUserAck(ev) ==
    /\ ev.type = "conversation.item.created"
    /\ ev.item.item_type = "message"
    /\ ev.item.role = Some("user")
    /\ IsSome(ev.item.content)

\* the texts acknowledged to the client as user messages, sent or next to
\* be sent, in order
UserAckTexts ==
    LET evs == [i \in DOMAIN emitted |-> emitted[i].ev]
               \o [i \in DOMAIN todo |-> todo[i].ev]
        acks == SelectSeq(evs, IsUserAck)
    IN  [i \in DOMAIN acks |->
            extract_text_from_content(Unwrap(acks[i].item.content))]

\* response.done of the turn of frame k is sent or next to be sent
DoneQueued(k) ==
    \/ \E i \in OutRange(k) : emitted[i].ev.type = "response.done"
    \/ k = Len(log) /\ \E i \in DOMAIN todo : todo[i].ev.type = "response.done"

\* the text of response.text.done of the turn of frame k
TextDoneOf(k) ==
    LET i == CHOOSE i \in OutRange(k) : emitted[i].ev.type = "response.text.done"
    IN  emitted[i].ev.text

\* C12: the history is extended before the event that reports it: every
\* user message acknowledged with conversation.item.created (for a commit's
\* transcript and for conversation.item.create) is in the history by the
\* time the ack is enqueued; the assistant message of a turn is not in the
\* history while the LLM stream is open and is the last message of the
\* history by the time response.done is enqueued.
C12_HistoryBeforeEvents ==
    /\ LET users == OfRole(messages, "user") IN
         /\ Len(UserAckTexts) <= Len(users)
         /\ \A i \in DOMAIN UserAckTexts : users[i].message = UserAckTexts[i]
    /\ (loc.handler = "generate_response"
        /\ pc \in {"complete", "next_chunk", "tts_and_send", "after_loop"}) =>
           OfRole(messages, "assistant")
               = OfRole(log[Len(log)].pre.messages, "assistant")
    /\ \A k \in DOMAIN log :
           DoneQueued(k) =>
               LET m == PostOf(k).messages IN
               /\ m # <<>>
               /\ m[Len(m)] = Content("assistant", TextDoneOf(k), None, None)
               /\ Len(OfRole(m, "assistant"))
                      = Len(OfRole(log[k].pre.messages, "assistant")) + 1

\* a commit whose transcript was acknowledged and whose turn is at its
\* response.done
C12_Witness ==
    \E k \in DOMAIN log :
        /\ DoneQueued(k)
        /\ Len(UserAckTexts) >= 1
        /\ Len(OfRole(PostOf(k).messages, "user")) >= 1
        /\ \E i \in OutRange(k) : IsUserAck(emitted[i].ev)

\* the handler of frame k got a transcript from ASR
Transcribed(k) ==
    \E i \in DOMAIN CallsOf(k) : CallsOf(k)[i] = Call("asr", "ok")

\* the handler of frame k sent response.done
Completed(k) == \E i \in OutRange(k) : emitted[i].ev.type = "response.done"

\* the roles of the messages the handler of frame k added to the history
AddedRoles(k) ==
    LET before == log[k].pre.messages
        after  == PostOf(k).messages
    IN  [i \in 1..(Len(after) - Len(before)) |-> after[Len(before) + i].role]

\* C13: a commit or response.create adds to the history one user message if
\* ASR gave a transcript, then one assistant message if the turn sent its
\* response.done, and nothing else: nothing for an empty commit, for a
\* VAD-negative one, for a failed VAD or ASR call, or for a turn the gate
\* skipped.
C13_HistoryGrowth ==
    \A k \in DOMAIN log :
        ( /\ log[k].frame.type \in {"input_audio_buffer.commit", "response.create"}
          /\ Returned(k) ) =>
            /\ SubSeq(PostOf(k).messages, 1, Len(log[k].pre.messages))
                   = log[k].pre.messages
            /\ AddedRoles(k)
                   = (IF Transcribed(k) THEN <<"user">> ELSE <<>>)
                     \o (IF Completed(k) THEN <<"assistant">> ELSE <<>>)

\* a commit that was transcribed and answered, after a commit whose ASR
\* call failed
C13_Witness ==
    \E j, k \in DOMAIN log :
        /\ j < k
        /\ log[j].frame.type = "input_audio_buffer.commit"
        /\ \E i \in DOMAIN CallsOf(j) : CallsOf(j)[i] = Call("asr", "err")
        /\ log[k].frame.type = "input_audio_buffer.commit"
        /\ Returned(k) /\ Transcribed(k) /\ Completed(k)

\* generate_response is entered: the sends before the call are done
AtGate == pc = "generate_response" /\ todo = <<>>

Shape(type, content_index) == <<type, content_index>>

ShapeOf(ev) ==
    Shape(ev.type,
          IF ev.type \in {"response.content_part.added", "response.text.delta",
                          "response.audio.delta", "response.text.done",
                          "response.content_part.done", "response.audio.done"}
          THEN ev.content_index ELSE 0)

\* the events of the turn of frame k, from its response.created on
TurnOf(k) ==
    LET o == Out(k)
        first == CHOOSE i \in DOMAIN o :
                     /\ o[i].type = "response.created"
                     /\ \A j \in 1..(i - 1) : o[j].type # "response.created"
    IN  [i \in 1..(Len(o) - first + 1) |-> ShapeOf(o[first + i - 1])]

\* the events that open and close a turn, by whether audio is active
TurnHead(audio) ==
    <<Shape("response.created", 0), Shape("response.output_item.added", 0),
      Shape("response.content_part.added", 0)>>
    \o (IF audio THEN <<Shape("response.content_part.added", 1)>> ELSE <<>>)

TurnTail(audio) ==
    <<Shape("response.text.done", 0), Shape("response.content_part.done", 0)>>
    \o (IF audio
        THEN <<Shape("response.audio.done", 1),
               Shape("response.content_part.done", 1)>>
        ELSE <<>>)
    \o <<Shape("response.output_item.done", 0), Shape("response.done", 0)>>

\* head, then text deltas each followed by its audio deltas, then tail
WellFormedTurn(t, audio) ==
    LET h == TurnHead(audio)
        e == TurnTail(audio)
        n == Len(t) - Len(h) - Len(e)
    IN  /\ n >= 0
        /\ SubSeq(t, 1, Len(h)) = h
        /\ SubSeq(t, Len(t) - Len(e) + 1, Len(t)) = e
        /\ \A i \in 1..n :
               LET d == t[Len(h) + i] IN
               \/ d = Shape("response.text.delta", 0)
               \/ audio /\ i > 1 /\ d = Shape("response.audio.delta", 1)

Started(k) == \E i \in OutRange(k) : emitted[i].ev.type = "response.created"

AudioActive(c) == IsSome(c.modalities) /\ Audio \in Unwrap(c.modalities)

\* C15: every turn that passes the gate sends, in this order and once each,
\* response.created, response.output_item.added, response.content_part.added
\* (0) [and (1) with audio], the text deltas each followed by its audio
\* deltas, response.text.done, response.content_part.done (0)
\* [response.audio.done and response.content_part.done (1) with audio],
\* response.output_item.done and response.done.  The code breaks this: a
\* turn whose complete() fails stops after response.content_part.added.
C15_TurnLifecycle ==
    \A k \in DOMAIN log :
        (Returned(k) /\ Started(k)) =>
            WellFormedTurn(TurnOf(k), AudioActive(log[k].pre.config))

\* the LLM stream of the turn of frame k yielded an error
StreamFailed(k) ==
    \E i \in DOMAIN CallsOf(k) : CallsOf(k)[i] = Call("llm", "chunk_err")

\* C16: when the LLM stream yields an error, on the first chunk or after
\* text chunks, the turn is still sent from response.created to
\* response.done, the text of response.text.done is STANDARD_ERROR_RESPONSE,
\* the assistant message added to the history has that text, and no error
\* event is sent.
C16_LlmFailureFallback ==
    \A k \in DOMAIN log :
        (Returned(k) /\ StreamFailed(k)) =>
            /\ Started(k)
            /\ WellFormedTurn(TurnOf(k), AudioActive(log[k].pre.config))
            /\ TextDoneOf(k) = STANDARD_ERROR_RESPONSE
            /\ LET m == PostOf(k).messages IN
                 /\ m # <<>>
                 /\ m[Len(m)] = Content("assistant", STANDARD_ERROR_RESPONSE,
                                        None, None)
                 /\ Len(OfRole(m, "assistant"))
                        = Len(OfRole(log[k].pre.messages, "assistant")) + 1
            /\ \A i \in OutRange(k) : emitted[i].ev.type # "error"

\* the stream failed after a valid text chunk had been sent
C16_Witness ==
    \E k \in DOMAIN log :
        /\ Returned(k) /\ StreamFailed(k)
        /\ \E i \in OutRange(k) :
               /\ emitted[i].ev.type = "response.text.delta"
               /\ IsValidChunk(emitted[i].ev.delta)

\* the sends that succeeded, in order
Sent == SelectSeq(emitted, LAMBDA e : e.ok)

\* what the client has received after the two initial frames
ClientSaw == SubSeq(socket, 3, Len(socket))

IsDelta(e) == e.ev.type \in {"response.text.delta", "response.audio.delta"}

\* C17: the client receives the events in the order they were enqueued, and
\* so, within a response, the response.text.delta of chunk N before every
\* response.audio.delta made from chunk N, and all of these before the
\* response.text.delta of chunk N+1.
C17_TextBeforeItsAudio ==
    /\ Len(ClientSaw) <= Len(Sent)
    /\ \A j \in DOMAIN ClientSaw :
           /\ ClientSaw[j] = Sent[j].ev
           /\ IsDelta(Sent[j]) =>
                  /\ \A i \in 1..(j - 1) :
                         ( /\ IsDelta(Sent[i])
                           /\ Sent[i].ev.response_id = Sent[j].ev.response_id ) =>
                             /\ Sent[i].chunk <= Sent[j].chunk
                             /\ Sent[i].chunk = Sent[j].chunk =>
                                    Sent[j].ev.type = "response.audio.delta"
                  /\ Sent[j].ev.type = "response.audio.delta" =>
                         \E i \in 1..(j - 1) :
                             /\ Sent[i].ev.type = "response.text.delta"
                             /\ Sent[i].ev.response_id = Sent[j].ev.response_id
                             /\ Sent[i].chunk = Sent[j].chunk

\* the client has the text of a chunk, audio made from it, and the text of
\* the next chunk
C17_Witness ==
    \E i, j, l \in DOMAIN ClientSaw :
        /\ i < j /\ j < l /\ l <= Len(Sent)
        /\ Sent[i].ev.type = "response.text.delta"
        /\ Sent[j].ev.type = "response.audio.delta"
        /\ Sent[l].ev.type = "response.text.delta"
        /\ Sent[i].chunk = Sent[j].chunk
        /\ Sent[l].chunk > Sent[j].chunk

\* the audio deltas sent by the handler of frame k in iteration n of the LLM
\* loop, that is, for the TTS answer to the n-th chunk
AudioGroup(k, n) ==
    LET o == [i \in 1..Len(Out(k)) |-> emitted[log[k].at + i]]
    IN  SelectSeq(o, LAMBDA e : e.ev.type = "response.audio.delta" /\ e.chunk = n)

\* the decoded byte lengths of the deltas of a group
DecodedLens(g) == [i \in DOMAIN g |-> decode_base64(g[i].ev.delta).data]

\* every send of the group succeeded and none is still to come
GroupComplete(k, n) ==
    /\ \A i \in DOMAIN AudioGroup(k, n) : AudioGroup(k, n)[i].ok
    /\ ~ ( /\ k = Len(log)
           /\ loc.handler = "generate_response"
           /\ loc.chunks = n
           /\ (pc = "tts_and_send"
               \/ \E i \in DOMAIN todo : todo[i].ev.type = "response.audio.delta") )

\* the streamed TTS answers of this run, as the groups they were cut into
StreamGroups ==
    {kn \in (DOMAIN log) \X (1..(MaxChunks + 1)) :
        /\ env.tts = "StreamGSV"
        /\ AudioGroup(kn[1], kn[2]) # <<>>
        /\ GroupComplete(kn[1], kn[2])}

BodyOf(kn) == Unwrap(AudioGroup(kn[1], kn[2])[1].of)

\* the bytes of a body up to its end or its first error
RECURSIVE BytesRead(_)
BytesRead(body) ==
    IF body = <<>> \/ ~Head(body).ok THEN 0
    ELSE Head(body).len + BytesRead(Tail(body))

Fails(body) == \E i \in DOMAIN body : ~body[i].ok

\* the byte lengths of n bytes cut into frames of `size`, the short rest last
RECURSIVE Framed(_, _)
Framed(n, size) ==
    IF n <= 0 THEN <<>>
    ELSE IF n < size THEN <<n>>
    ELSE <<size>> \o Framed(n - size, size)

\* C18 as stated: the streamed TTS answer is cut into frames of exactly 3200
\* bytes with the short residual last (10 000 bytes: 3200, 3200, 3200, 400),
\* all with content_index 1.
C18_FramesOf3200 ==
    \A kn \in StreamGroups :
        ~Fails(BodyOf(kn)) =>
            /\ DecodedLens(AudioGroup(kn[1], kn[2]))
                   = Framed(BytesRead(BodyOf(kn)), 3200)
            /\ \A i \in DOMAIN AudioGroup(kn[1], kn[2]) :
                   AudioGroup(kn[1], kn[2])[i].ev.content_index = 1

\* C18: the streamed TTS answer is cut into frames of exactly 16 000 bytes,
\* the residual being carried across the HTTP chunks and sent last when the
\* stream ends (10 000 bytes: one delta of 10 000); when the stream fails the
\* full frames read so far have been sent and the residual is not; all
\* deltas have content_index 1.
C18_FramesOf16000 ==
    \A kn \in StreamGroups :
        LET lens == DecodedLens(AudioGroup(kn[1], kn[2]))
            all == Framed(BytesRead(BodyOf(kn)), 16000)
        IN  /\ lens = IF Fails(BodyOf(kn))
                      THEN SelectSeq(all, LAMBDA l : l = 16000)
                      ELSE all
            /\ \A i \in DOMAIN AudioGroup(kn[1], kn[2]) :
                   AudioGroup(kn[1], kn[2])[i].ev.content_index = 1

\* a streamed answer whose residual was carried over two HTTP chunk
\* boundaries: two full frames and the rest
C18_Witness ==
    \E kn \in StreamGroups :
        /\ Len(BodyOf(kn)) = 3
        /\ DecodedLens(AudioGroup(kn[1], kn[2])) = <<16000, 16000, 1000>>

\* all audio deltas sent by the handler of frame k, that is, of its turn
TurnAudio(k) ==
    LET o == [i \in 1..Len(Out(k)) |-> emitted[log[k].at + i]]
    IN  SelectSeq(o, LAMBDA e : e.ev.type = "response.audio.delta")

\* every delta of g but its last is a full frame of 16000 bytes
OnlyLastShort(g) ==
    \A i \in 1..(Len(g) - 1) : DecodedLens(g)[i] = 16000

AtMostAFrame(k) ==
    \A i \in DOMAIN TurnAudio(k) : DecodedLens(TurnAudio(k))[i] <= 16000

\* C19 as stated: every audio delta decodes to at most 16000 bytes and
\* within a turn only the final audio delta of the turn is shorter than a
\* full frame, also with several text chunks.
C19_OnlyLastOfTurnShort ==
    \A k \in DOMAIN log : AtMostAFrame(k) /\ OnlyLastShort(TurnAudio(k))

\* C19: every audio delta decodes to at most 16000 bytes and, among the audio
\* deltas synthesized from one text chunk, only the last is shorter than a
\* full frame.
C19_OnlyLastOfChunkShort ==
    \A k \in DOMAIN log :
        /\ AtMostAFrame(k)
        /\ \A n \in 1..(MaxChunks + 1) : OnlyLastShort(AudioGroup(k, n))

\* a turn of two text chunks, each synthesized into a full frame and a
\* short one
C19_Witness ==
    \E k \in DOMAIN log :
        /\ Len(AudioGroup(k, 1)) = 2
        /\ Len(AudioGroup(k, 2)) = 2
        /\ DecodedLens(TurnAudio(k)) = <<16000, 8000, 16000, 8000>>

\* C20: the first two frames written to the socket are session.created and
\* then conversation.created, and no later frame is one of them; until both
\* are written no inbound frame is handled, no event is enqueued, no service
\* is called and the sender task does not exist, so a connection whose
\* initial write failed ends without handling any inbound frame.
C20_InitialFramesFirst ==
    /\ Len(socket) >= 1 => socket[1].type = "session.created"
    /\ Len(socket) >= 2 => socket[2].type = "conversation.created"
    /\ \A i \in 3..Len(socket) :
           socket[i].type \notin {"session.created", "conversation.created"}
    /\ Len(socket) < 2 =>
           /\ log = <<>>
           /\ emitted = <<>>
           /\ chan = <<>>
           /\ calls = <<>>
           /\ send_task = "unspawned"
           /\ pc \in {"session_created", "conversation_created", "returned"}

\* an inbound frame was handled and the sender task has written one of its
\* events after the two initial frames
C20_Witness ==
    /\ log # <<>>
    /\ Len(socket) >= 3
    /\ socket[1].type = "session.created"
    /\ socket[2].type = "conversation.created"
    /\ socket[3] = emitted[1].ev

\* a send of the handler of frame k met the closed channel
FailedSend(k) == \E i \in OutRange(k) : ~emitted[i].ok

\* the turn of frame k ran to its end: the assistant's message is the last
\* of the history and is_generating is false
RanToEnd(k) ==
    /\ ~PostOf(k).is_generating
    /\ LastIsAssistant(PostOf(k).messages)
    /\ Len(OfRole(PostOf(k).messages, "assistant"))
           = Len(OfRole(log[k].pre.messages, "assistant")) + 1

\* C21: once a socket write has failed the sender task has ended and the
\* channel is closed; from then on every send of the receiver fails at once
\* (it is never blocked and queues nothing), a turn in progress still runs
\* to its end, with the assistant's message added to the history and
\* is_generating false, and the receiver still takes inbound frames.  The
\* code breaks the part on the turn: a turn whose complete() fails ends
\* with is_generating true and no assistant message.
C21_SocketWriteFailure ==
    /\ ChannelClosed => chan = <<>>
    /\ \A i, j \in DOMAIN emitted : (i < j /\ ~emitted[i].ok) => ~emitted[j].ok
    /\ (ChannelClosed /\ todo # <<>>) => ENABLED Send
    /\ (ChannelClosed /\ Idle /\ Len(log) < env.frames /\ env.socket_fails) =>
           ENABLED (HandleResponseCreate \/ HandleResponseCancel)
    /\ \A k \in DOMAIN log :
           (Returned(k) /\ Started(k) /\ FailedSend(k)) => RanToEnd(k)

\* the events the receiver has enqueued, in order
Enqueued == [i \in DOMAIN Sent |-> Sent[i].ev]

\* the receiver stands at a send and the channel is full
Blocked ==
    /\ todo # <<>>
    /\ send_task = "running"
    /\ Len(chan) = ChannelCapacity

\* C22: the frames written to the socket after the two initial ones are a
\* prefix of the events the receiver has enqueued, and while the sender task
\* runs the enqueued events are exactly the written ones followed by the
\* channel's content (none lost, duplicated or reordered); the channel never
\* holds more than its capacity; a receiver at a send with the channel full
\* takes no step (the send neither completes nor is given up, and nothing
\* after it runs) until the sender task has taken an event, and then the
\* send can complete.
C22_FifoAndBackpressure ==
    /\ [](/\ Len(ClientSaw) <= Len(Enqueued)
          /\ ClientSaw = SubSeq(Enqueued, 1, Len(ClientSaw))
          /\ send_task = "running" => Enqueued = ClientSaw \o chan
          /\ Len(chan) <= ChannelCapacity)
    /\ [][Blocked => UNCHANGED <<session, pc, todo, loc, next_uuid, emitted,
                                 log, calls>>]_vars
    /\ []((todo # <<>> /\ send_task = "running" /\ Len(chan) < ChannelCapacity)
            => ENABLED Send)

\* the receiver is blocked in a turn, events of which the client already has
C22_Witness ==
    /\ Blocked
    /\ Len(ClientSaw) >= 2
    /\ loc.handler = "generate_response"

Cancelled(k) == log[k].frame.type = "response.cancel" /\ Returned(k)

\* C23: a response.cancel, whatever the session state, leaves is_generating
\* false and sends exactly one event, conversation.interrupted (so no
\* response.* event); the input audio buffer, the history and the config are
\* as before and no service is called; a response.create that comes next is
\* not answered with an error.
C23_Cancel ==
    \A k \in DOMAIN log :
        Cancelled(k) =>
            /\ ~PostOf(k).is_generating
            /\ Out(k) = <<ConversationInterrupted>>
            /\ PostOf(k).input_audio_buffer = log[k].pre.input_audio_buffer
            /\ PostOf(k).messages = log[k].pre.messages
            /\ PostOf(k).system_prompts = log[k].pre.system_prompts
            /\ PostOf(k).config = log[k].pre.config
            /\ CallsOf(k) = <<>>
            /\ (k < Len(log) /\ log[k + 1].frame.type = "response.create") =>
                   \A i \in OutRange(k + 1) : emitted[i].ev.type # "error"

\* a response.cancel that met is_generating true, and the response.create
\* after it has started a turn
C23_Witness ==
    \E k \in DOMAIN log :
        /\ Cancelled(k)
        /\ log[k].pre.is_generating
        /\ k < Len(log)
        /\ log[k + 1].frame.type = "response.create"
        /\ Started(k + 1)

ItemCreated(k) == log[k].frame.type = "conversation.item.create" /\ Returned(k)

\* a content part that carries text, and its text
CarriesText(part) ==
    part.kind \in {"text", "input_text"} \/ IsSome(part.transcript)

TextOfPart(part) ==
    IF part.kind \in {"text", "input_text"} THEN part.text
    ELSE Unwrap(part.transcript)

\* the texts of the first n of `parts`, one space between two of them
RECURSIVE SpaceJoined(_, _)
SpaceJoined(parts, n) ==
    IF n = 0 THEN <<>>
    ELSE IF n = 1 THEN TextOfPart(parts[1])
    ELSE SpaceJoined(parts, n - 1) \o <<" ">> \o TextOfPart(parts[n])

\* the text of an item's content, empty without content
ItemText(item) ==
    LET parts == IF IsSome(item.content)
                 THEN SelectSeq(Unwrap(item.content), CarriesText)
                 ELSE <<>>
    IN  SpaceJoined(parts, Len(parts))

IsMessageOf(item, roles) ==
    item.item_type = "message" /\ \E r \in roles : item.role = Some(r)

\* the one event of the handler echoes the frame
EchoesItem(k) ==
    Out(k) = <<[type |-> "conversation.item.created",
                previous_item_id |-> log[k].frame.previous_item_id,
                item |-> log[k].frame.item]>>

\* the history after is the history before and one record more, `last`
AppendsOne(k) ==
    /\ Len(PostOf(k).messages) = Len(log[k].pre.messages) + 1
    /\ SubSeq(PostOf(k).messages, 1, Len(log[k].pre.messages))
           = log[k].pre.messages

LastAdded(k) == PostOf(k).messages[Len(PostOf(k).messages)]

\* C24 as stated: every conversation.item.create appends exactly one record
\* to the history: a message of role user, assistant or system one of that
\* role with the space-joined text of its parts, a function_call an
\* assistant message with one tool call, a function_call_output a tool
\* message; one conversation.item.created echoes the frame.
C24_EveryItemAppendsOne ==
    \A k \in DOMAIN log :
        ItemCreated(k) =>
            LET item == log[k].frame.item IN
            /\ EchoesItem(k)
            /\ AppendsOne(k)
            /\ IsMessageOf(item, {"user", "assistant", "system"}) =>
                   /\ Some(LastAdded(k).role) = item.role
                   /\ LastAdded(k).message = ItemText(item)
            /\ item.item_type = "function_call" =>
                   /\ LastAdded(k).role = "assistant"
                   /\ IsSome(LastAdded(k).tool_calls)
                   /\ Len(Unwrap(LastAdded(k).tool_calls)) = 1
            /\ item.item_type = "function_call_output" =>
                   LastAdded(k).role = "tool"

\* the item is of a shape that adds to the history
AddsToHistory(item) ==
    \/ IsMessageOf(item, {"user", "assistant"}) /\ IsSome(item.content)
    \/ item.item_type = "function_call" /\ IsSome(item.arguments)
    \/ item.item_type = "function_call_output" /\ IsSome(item.output)

\* C24: conversation.item.create appends one record to the history for a
\* user or assistant message with content (that role, the space-joined text
\* of its parts), for a function_call with arguments (an assistant message
\* with one tool call of the item's name and arguments) and for a
\* function_call_output with output (a tool message with the output and the
\* item's id); a system message with content appends nothing and replaces
\* the text of the first system prompt, if there is one; any other item
\* changes neither; in every case one conversation.item.created echoes the
\* frame's previous_item_id and item.
C24_ItemShapes ==
    \A k \in DOMAIN log :
        ItemCreated(k) =>
            LET item == log[k].frame.item
                pre == log[k].pre
                post == PostOf(k)
            IN
            /\ EchoesItem(k)
            /\ IF AddsToHistory(item)
               THEN AppendsOne(k)
               ELSE post.messages = pre.messages
            /\ (IsMessageOf(item, {"user", "assistant"}) /\ IsSome(item.content)) =>
                   LastAdded(k) = [role |-> Unwrap(item.role),
                                   message |-> ItemText(item),
                                   tool_calls |-> None, tool_call_id |-> None]
            /\ (item.item_type = "function_call" /\ IsSome(item.arguments)) =>
                   /\ LastAdded(k).role = "assistant"
                   /\ LastAdded(k).message = <<>>
                   /\ Len(Unwrap(LastAdded(k).tool_calls)) = 1
                   /\ Unwrap(LastAdded(k).tool_calls)[1].name = Unwrap(item.name)
                   /\ Unwrap(LastAdded(k).tool_calls)[1].arguments
                          = Unwrap(item.arguments)
            /\ (item.item_type = "function_call_output" /\ IsSome(item.output)) =>
                   /\ LastAdded(k).role = "tool"
                   /\ LastAdded(k).message = Unwrap(item.output)
                   /\ LastAdded(k).tool_call_id = item.id
            /\ IF IsMessageOf(item, {"system"}) /\ IsSome(item.content)
                  /\ pre.system_prompts # <<>>
               THEN /\ Len(post.system_prompts) = Len(pre.system_prompts)
                    /\ post.system_prompts[1].message = ItemText(item)
                    /\ post.system_prompts[1].role = pre.system_prompts[1].role
                    /\ Tail(post.system_prompts) = Tail(pre.system_prompts)
               ELSE post.system_prompts = pre.system_prompts
            /\ post.config = pre.config
            /\ post.input_audio_buffer = pre.input_audio_buffer
            /\ post.is_generating = pre.is_generating

\* a user message of several parts has been added with its joined text, and
\* a system item after it has replaced the system prompt
C24_Witness ==
    \E k, l \in DOMAIN log :
        /\ k < l
        /\ ItemCreated(k) /\ ItemCreated(l)
        /\ log[k].frame.item = SpokenUserItem
        /\ LastAdded(k).message = <<"h", "i", " ", "y", "o">>
        /\ log[l].frame.item = SystemItem
        /\ PostOf(l).system_prompts[1].message = <<"n", "e", "w">>
        /\ PostOf(l).messages = PostOf(k).messages

\* the delta fields of the response.text.delta events among the first n
\* events of the handler of frame k, concatenated in order
RECURSIVE DeltasOf(_, _)
DeltasOf(k, n) ==
    IF n = 0 THEN <<>>
    ELSE DeltasOf(k, n - 1)
         \o (IF Out(k)[n].type = "response.text.delta"
             THEN Out(k)[n].delta ELSE <<>>)

\* a text chunk that counts: not blank, not "()", not "[]" once trimmed
CountsAsText(t) ==
    Trim(t) \notin {<<>>, <<"(", ")">>, <<"[", "]">>}

\* the final text the claim gives the turn of frame k
FinalTextOf(k) ==
    LET all == DeltasOf(k, Len(Out(k))) IN
    IF /\ ~StreamFailed(k)
       /\ \E i \in DOMAIN Out(k) :
              Out(k)[i].type = "response.text.delta" /\ CountsAsText(Out(k)[i].delta)
       /\ Trim(all) # <<>>
    THEN all
    ELSE STANDARD_ERROR_RESPONSE

\* the turn of frame k has sent response.text.done and its handler returned
TextDone(k) ==
    /\ Returned(k)
    /\ \E i \in OutRange(k) : emitted[i].ev.type = "response.text.done"

\* C25: when the LLM stream ended with Stop, some text chunk counts and the
\* accumulated text is not blank, the text of response.text.done is the
\* concatenation of the turn's text deltas in order; else it is
\* STANDARD_ERROR_RESPONSE.  The parts of response.content_part.done, the
\* item of response.output_item.done and the assistant message added to the
\* history carry the same text.
C25_FinalText ==
    \A k \in DOMAIN log :
        TextDone(k) =>
            LET text == FinalTextOf(k)
                m == PostOf(k).messages
            IN
            /\ TextDoneOf(k) = text
            /\ \A i \in DOMAIN Out(k) :
                   /\ Out(k)[i].type = "response.content_part.done" =>
                          IF Out(k)[i].content_index = 0
                          THEN Out(k)[i].part = TextPart(text)
                          ELSE Out(k)[i].part.transcript = Some(text)
                   /\ Out(k)[i].type = "response.output_item.done" =>
                          \A j \in DOMAIN Unwrap(Out(k)[i].item.content) :
                              LET part == Unwrap(Out(k)[i].item.content)[j] IN
                              IF part.kind = "text" THEN part.text = text
                              ELSE part.transcript = Some(text)
            /\ Count(Out(k), "response.content_part.done") >= 1
            /\ Count(Out(k), "response.output_item.done") = 1
            /\ m # <<>>
            /\ m[Len(m)].role = "assistant"
            /\ m[Len(m)].message = text

\* a turn whose text is its two chunks, the first of which does not count,
\* and a turn of chunks that do not count, answered with the standard text
C25_Witness ==
    \E k, l \in DOMAIN log :
        /\ TextDone(k) /\ TextDone(l)
        /\ TextDoneOf(k) = <<"[", "]", " ", "h", "i">>
        /\ Count(Out(l), "response.text.delta") = 2
        /\ ~StreamFailed(l)
        /\ TextDoneOf(l) = STANDARD_ERROR_RESPONSE

\* the TTS calls of the turn of frame k that returned an answer
TtsAnswers(k) ==
    Cardinality({i \in DOMAIN CallsOf(k) : CallsOf(k)[i] = Call("tts", "ok")})

\* in the turn of frame k a TTS call failed, an answer could not be read
\* (to its end), or an audio delta could not be delivered
TtsFailedIn(k) ==
    \/ \E i \in DOMAIN CallsOf(k) : CallsOf(k)[i] = Call("tts", "err")
    \/ \E i \in OutRange(k) :
           emitted[i].ev.type = "response.audio.delta" /\ ~emitted[i].ok
    \/ TtsAnswers(k)
           > Cardinality({n \in 1..(MaxChunks + 1) : AudioGroup(k, n) # <<>>})
    \/ \E n \in 1..(MaxChunks + 1) :
           /\ AudioGroup(k, n) # <<>>
           /\ env.tts = "StreamGSV"
           /\ Fails(Unwrap(AudioGroup(k, n)[1].of))

\* the step in which tts_and_send returns an error: the call fails, the
\* answer yields no audio, or the send of an audio delta fails
TtsGivesUp ==
    \/ pc = "tts_and_send" /\ pc' # pc /\ todo' = <<>>
    \/ /\ todo # <<>>
       /\ Head(todo).ev.type = "response.audio.delta"
       /\ ChannelClosed
       /\ emitted' # emitted

\* C26: a failed TTS for a text chunk (the call, reading the answer, or
\* delivering the audio) does not end the turn: the step leaves the
\* receiver in the LLM loop with is_generating true, where the next text
\* chunk can be taken and sent; no error event is sent in the turn, which
\* ends with response.text.done, response.content_part.done,
\* response.audio.done, response.content_part.done,
\* response.output_item.done and response.done, the assistant message added
\* and is_generating false.
C26_TtsFailureIsGraceful ==
    /\ [][TtsGivesUp =>
            /\ pc' = "next_chunk"
            /\ todo' = <<>>
            /\ loc' = loc
            /\ is_generating'
            /\ \A i \in DOMAIN emitted' : emitted'[i].ev.type # "error"]_vars
    /\ []((pc = "next_chunk" /\ todo = <<>> /\ loc.chunks < MaxChunks)
            => ENABLED LlmText)
    /\ [](\A k \in DOMAIN log :
            (Returned(k) /\ TtsFailedIn(k)) =>
                LET t == TurnOf(k) IN
                /\ \A i \in OutRange(k) : emitted[i].ev.type # "error"
                /\ Len(t) >= Len(TurnHead(TRUE)) + Len(TurnTail(TRUE))
                /\ SubSeq(t, Len(t) - Len(TurnTail(TRUE)) + 1, Len(t))
                       = TurnTail(TRUE)
                /\ RanToEnd(k))

\* the TTS call for the first chunk failed, and the turn went on to send
\* the text of a second chunk and its audio
C26_Witness ==
    \E k \in DOMAIN log :
        /\ Returned(k) /\ TtsFailedIn(k)
        /\ CallsOf(k)[2] = Call("tts", "err")
        /\ AudioGroup(k, 1) = <<>>
        /\ AudioGroup(k, 2) # <<>>
        /\ Count(Out(k), "response.text.delta") = 2

\* an event of the audio part of a turn
IsAudioEvent(ev) ==
    \/ ev.type \in {"response.audio.delta", "response.audio.done"}
    \/ /\ ev.type \in {"response.content_part.added", "response.content_part.done"}
       /\ ev.content_index = 1

\* C27: session.created announces the modalities Text and Audio, but a turn
\* produces audio only when the config in force lists Audio: when the
\* session has had no accepted session.update, or the last accepted one had
\* no modalities or modalities without Audio, the handler of the turn calls
\* no TTS and sends no response.content_part.added / done with content_index
\* 1, no response.audio.delta and no response.audio.done.
C27_AudioOnlyWhenListed ==
    /\ Len(socket) >= 1 => socket[1].session.modalities = {Text, Audio}
    /\ \A k \in DOMAIN log :
           ~AudioActive(log[k].pre.config) =>
               /\ \A i \in DOMAIN CallsOf(k) : CallsOf(k)[i].service # "tts"
               /\ \A i \in DOMAIN Out(k) : ~IsAudioEvent(Out(k)[i])

\* audio was switched on, then an accepted session.update without
\* modalities came, and the turn after it sent its text and no audio, on a
\* server whose TTS has answers
C27_Witness ==
    /\ env.audio # {}
    /\ Len(log) = 3
    /\ log[1].frame = FSessionUpdate(AudioOn)
    /\ log[2].frame = FSessionUpdate(Instructed)
    /\ log[3].frame.type = "response.create"
    /\ log[3].pre.config.modalities = None
    /\ Returned(3)
    /\ Count(Out(3), "response.text.delta") >= 1
    /\ Count(Out(3), "response.done") = 1

\* the turn of frame j ended on a failure to open the LLM stream
OpenFailed(j) ==
    \E i \in DOMAIN CallsOf(j) : CallsOf(j)[i] = Call("llm", "err")

\* the handler of frame k sent the response_in_progress error
Refused(k) ==
    \E i \in DOMAIN Out(k) :
        Out(k)[i].type = "error" /\ Out(k)[i].code = "response_in_progress"

\* C28: a frame is dispatched with is_generating true only when an earlier
\* turn ended on a failure to open the LLM stream and no response.cancel
\* was handled since; so in a run where opening the stream never fails
\* every frame is dispatched with is_generating false, and only a
\* response.create dispatched in such a state is answered with
\* response_in_progress.
C28_GeneratingAtDispatch ==
    \A k \in DOMAIN log :
        /\ log[k].pre.is_generating =>
               \E j \in 1..(k - 1) :
                   /\ OpenFailed(j)
                   /\ \A m \in (j + 1)..(k - 1) :
                          log[m].frame.type # "response.cancel"
        /\ Refused(k) =>
               /\ log[k].frame.type = "response.create"
               /\ log[k].pre.is_generating

\* a turn's stream could not be opened, another frame was handled, and the
\* response.create after it was refused
C28_Witness ==
    \E k \in DOMAIN log :
        /\ k >= 3
        /\ OpenFailed(k - 2)
        /\ log[k - 1].frame.type \notin {"response.cancel", "response.create"}
        /\ log[k].pre.is_generating
        /\ Returned(k) /\ Refused(k)

\* the receive loop has ended
Closed == pc \in {"join", "returned"}

\* C29: after Close or the end of the inbound stream the receiver handles no
\* frame and sends nothing more; the sender task ends on its own only then
\* and only when every enqueued event is written, in order; the handler
\* returns only after the sender task has ended, with every enqueued event
\* written when no socket write can fail; and it does return.
C29_OrderlyShutdown ==
    /\ [][Closed => /\ Closed'
                    /\ UNCHANGED <<session, todo, loc, emitted, log, calls>>]_vars
    /\ [][(send_task = "running" /\ send_task' = "finished" /\ chan = <<>>) =>
              /\ pc = "join"
              /\ todo = <<>>
              /\ ClientSaw = Enqueued
              /\ socket' = socket]_vars
    /\ []((pc = "returned" /\ Len(socket) >= 2) =>
              /\ send_task = "finished"
              /\ chan = <<>>
              /\ ~env.socket_fails => ClientSaw = Enqueued)
    /\ (pc = "join") ~> (pc = "returned")

\* the handler has returned after a turn, all of whose events are written
C29_Witness ==
    /\ pc = "returned"
    /\ ClientSaw = Enqueued
    /\ Len(Enqueued) >= 3
    /\ Enqueued[Len(Enqueued)].type = "response.done"

====
